---------------------------- MODULE Spec2Model ----------------------------
(***************************************************************************)
(* A model of densitty's binning engine (src/densitty/binning.py).        *)
(*                                                                         *)
(* Spec        bin_by_edges as a per-point accumulation loop               *)
(* SpecReduce  bin_by_edges applied to a sequence, its parts and a         *)
(*             permutation of it                                           *)
(***************************************************************************)
EXTENDS Integers, Sequences, FiniteSets, TLC

VARIABLES
    pc,            \* position of the operation being run
    x_edges,       \* bin_by_edges: the X edges
    y_edges,       \* bin_by_edges: the Y edges
    drop_outside,  \* bin_by_edges: the drop_outside flag
    out,           \* bin_by_edges: the grid, out[row][column]
    cur,           \* the point taken by the last loop iteration
    n_seen,        \* number of points the loop has consumed
    n_inside,      \* how many of them lie inside the edge rectangle
    scenario,      \* TRUE when the input is that of test_binning_drop_data
    pts,           \* SpecReduce: the point sequence given to bin_by_edges
    grid_whole,    \* SpecReduce: bin_by_edges(pts)
    parts,         \* SpecReduce: <<a, b>> with a \o b = pts, or a permutation of pts
    part_grids,    \* SpecReduce: the grids of the entries of parts
    fn,            \* SpecFn: the function called
    args,          \* SpecFn: its arguments
    ret,           \* SpecFn: the value it returned
    raised,        \* the exception the operation raised, "" for none
    span,          \* SpecSmooth: the locals of func_span
    bins_specified, num_bins, bin_edges, bin_sizes,   \* SpecHist: locals of histogram2d
    x_range, y_range                                  \* SpecHist: locals of histogram2d

binVars == <<x_edges, y_edges, drop_outside, out, cur, n_seen, n_inside, scenario>>
redVars == <<pts, grid_whole, parts, part_grids>>
fnVars == <<fn, args, ret, raised, span>>
histVars == <<bins_specified, num_bins, bin_edges, bin_sizes, x_range, y_range>>

vars == <<pc, binVars, redVars, fnVars, histVars>>

\* the value of a variable that holds nothing yet
Null == <<>>

\* histogram2d has not been entered
HistIdle ==
    /\ bins_specified = FALSE /\ num_bins = Null /\ bin_edges = Null
    /\ bin_sizes = Null /\ x_range = Null /\ y_range = Null

-----------------------------------------------------------------------------
(* Bounds of the model *)

\* coordinates of points and edges range over 0..MaxVal
MaxVal == 3
\* the loop consumes at most MaxPoints points
MaxPoints == 3

Vals == 0 .. MaxVal
\* an edge sequence has 2 or 3 edges (1 or 2 bins)
EdgeLens == {2, 3}

IsSorted(s) == \A i \in 1 .. Len(s) - 1 : s[i] <= s[i + 1]

SortedSeqs(S, lens) ==
    UNION {{s \in [1 .. n -> S] : IsSorted(s)} : n \in lens}

XEdgeChoices == SortedSeqs(Vals, EdgeLens)
YEdgeChoices == {<<0, 2>>, <<1, 3>>, <<1, 2, 3>>, <<1, 1, 2>>}
YVals == 0 .. 3
PointChoices == Vals \X YVals

-----------------------------------------------------------------------------
(* Python helpers *)

\* bisect.bisect_right on a sorted sequence: the number of entries <= x
bisect_right(a, x) == Cardinality({k \in DOMAIN a : a[k] <= x})

\* the same call with bisect_left: the number of entries < x
bisect_left(a, x) == Cardinality({k \in DOMAIN a : a[k] < x})

Min2(a, b) == IF a <= b THEN a ELSE b
Max2(a, b) == IF a >= b THEN a ELSE b

\* clamp without its lower bound
clamp_no_lower(x, min_x, max_x) == Min2(max_x, x)

clamp(x, min_x, max_x) == Max2(min_x, Min2(max_x, x))

\* a Python list index: a negative index counts from the end
PyIndex(i, n) == IF i < 0 THEN i + n ELSE i

\* the increment on a grid whose rows are one shared list ([[0] * n] * m):
\* the column is incremented in every row
IncrAliased(grid, y_idx, x_idx) ==
    LET c == PyIndex(x_idx, Len(grid[1])) + 1
    IN  [r \in DOMAIN grid |-> [grid[r] EXCEPT ![c] = @ + 1]]

\* out[y_idx][x_idx] += 1 with 0-based Python indices
Incr(grid, y_idx, x_idx) ==
    LET r == PyIndex(y_idx, Len(grid)) + 1
        c == PyIndex(x_idx, Len(grid[r])) + 1
    IN  [grid EXCEPT ![r][c] = @ + 1]

ZeroGrid(num_x_bins, num_y_bins) ==
    [y \in 1 .. num_y_bins |-> [x \in 1 .. num_x_bins |-> 0]]

\* the lookup done with bisect_left
BinIdxLeft(edges, v) == bisect_left(edges, v) - 1

\* the index lookup of one coordinate
BinIdx(edges, v) == bisect_right(edges, v) - 1

\* the body of the loop of bin_by_edges for one point p = <<x, y>>
BinStep(grid, p, xe, ye, drop) ==
    LET num_x_bins == Len(xe) - 1
        num_y_bins == Len(ye) - 1
        x_idx == BinIdx(xe, p[1])
        y_idx == BinIdx(ye, p[2])
    IN  IF drop
        THEN IF 0 <= x_idx /\ x_idx < num_x_bins
                /\ 0 <= y_idx /\ y_idx < num_y_bins
             THEN Incr(grid, y_idx, x_idx)
             ELSE grid
        ELSE Incr(grid, clamp(y_idx, 0, num_y_bins - 1),
                        clamp(x_idx, 0, num_x_bins - 1))

\* bin_by_edges that leaves the loop at the first dropped point
RECURSIVE BinFoldBreak(_, _, _, _, _)
BinFoldBreak(grid, points, xe, ye, drop) ==
    IF points = <<>> THEN grid
    ELSE LET g == BinStep(grid, Head(points), xe, ye, drop)
         IN  IF g = grid THEN grid
             ELSE BinFoldBreak(g, Tail(points), xe, ye, drop)

bin_by_edges_break(points, xe, ye, drop) ==
    BinFoldBreak(ZeroGrid(Len(xe) - 1, Len(ye) - 1), points, xe, ye, drop)

\* the loop of bin_by_edges over a whole point sequence
RECURSIVE BinFold(_, _, _, _, _)
BinFold(grid, points, xe, ye, drop) ==
    IF points = <<>> THEN grid
    ELSE BinFold(BinStep(grid, Head(points), xe, ye, drop), Tail(points), xe, ye, drop)

\* bin_by_edges(points, x_edges, y_edges, drop_outside)
bin_by_edges(points, xe, ye, drop) ==
    BinFold(ZeroGrid(Len(xe) - 1, Len(ye) - 1), points, xe, ye, drop)

-----------------------------------------------------------------------------
(* The input of test_binning_drop_data / test_binning_no_drop_data, in      *)
(* units of 0.25: points (x, 1) for x in arange(-1.0, 11.0, 0.25), X edges  *)
(* 0, 1, ..., 10 and Y edges 0, 1, 2.                                       *)

ScenarioPoints == [i \in 1 .. 48 |-> <<i - 5, 4>>]
ScenarioXEdges == [i \in 1 .. 11 |-> 4 * (i - 1)]
ScenarioYEdges == <<0, 4, 8>>

-----------------------------------------------------------------------------
(* Spec: bin_by_edges, one loop iteration per step *)

InsideRect(p, xe, ye) ==
    /\ xe[1] <= p[1] /\ p[1] < xe[Len(xe)]
    /\ ye[1] <= p[2] /\ p[2] < ye[Len(ye)]

BinStart(xe, ye, drop, scen) ==
    /\ pc = "loop"
    /\ x_edges = xe
    /\ y_edges = ye
    /\ drop_outside = drop
    /\ out = ZeroGrid(Len(xe) - 1, Len(ye) - 1)
    /\ cur = Null
    /\ n_seen = 0
    /\ n_inside = 0
    /\ scenario = scen
    /\ pts = Null /\ grid_whole = Null /\ parts = Null /\ part_grids = Null
    /\ fn = "" /\ args = Null /\ ret = Null /\ raised = "" /\ span = Null
    /\ HistIdle

Init ==
    \E drop \in BOOLEAN :
        \/ \E xe \in XEdgeChoices, ye \in YEdgeChoices :
               BinStart(xe, ye, drop, FALSE)
        \/ BinStart(ScenarioXEdges, ScenarioYEdges, drop, TRUE)

\* one iteration of `for x, y in points`
ProcessPoint(p) ==
    /\ pc = "loop"
    /\ out' = BinStep(out, p, x_edges, y_edges, drop_outside)
    /\ cur' = p
    /\ n_seen' = n_seen + 1
    /\ n_inside' = n_inside + (IF InsideRect(p, x_edges, y_edges) THEN 1 ELSE 0)
    /\ UNCHANGED <<pc, x_edges, y_edges, drop_outside, scenario, redVars, fnVars, histVars>>

\* the next point of an arbitrary input sequence
NextPoint ==
    /\ ~scenario
    /\ n_seen < MaxPoints
    /\ \E p \in PointChoices : ProcessPoint(p)

\* the next point of the test's input
NextScenarioPoint ==
    /\ scenario
    /\ n_seen < Len(ScenarioPoints)
    /\ ProcessPoint(ScenarioPoints[n_seen + 1])

\* the input is exhausted: return out
BinReturn ==
    /\ pc = "loop"
    /\ scenario => n_seen = Len(ScenarioPoints)
    /\ pc' = "done"
    /\ UNCHANGED <<binVars, redVars, fnVars, histVars>>

Next == NextPoint \/ NextScenarioPoint \/ BinReturn

Spec == Init /\ [][Next]_vars

-----------------------------------------------------------------------------
(* Claims about bin_by_edges *)

RECURSIVE SeqSum(_)
SeqSum(s) == IF s = <<>> THEN 0 ELSE s[1] + SeqSum(Tail(s))

GridTotal(grid) == SeqSum([r \in 1 .. Len(grid) |-> SeqSum(grid[r])])

NumXBins == Len(x_edges) - 1
NumYBins == Len(y_edges) - 1

\* coordinate v lies in the half-open bin b (1-based) of the edges
InBin(edges, b, v) == edges[b] <= v /\ v < edges[b + 1]

\* bin b is the bin of v, or the boundary bin nearest to an outside v
NearestBin(edges, b, v) ==
    /\ b = 1 \/ edges[b] <= v
    /\ b = Len(edges) - 1 \/ v < edges[b + 1]

\* the step just taken consumed one point
PointStep == n_seen' = n_seen + 1

\* C1: after every processed point the sum of all cells equals the number
\* of points not dropped so far: the number of points inside
\* [x_edges[0], x_edges[-1]) x [y_edges[0], y_edges[-1]) when drop_outside
\* is set, and the number of all points when it is not.
C1_GridTotalIsKeptCount ==
    /\ drop_outside => GridTotal(out) = n_inside
    /\ ~drop_outside => GridTotal(out) = n_seen

C1_Witness ==
    /\ pc = "done" /\ ~scenario /\ drop_outside
    /\ n_seen = MaxPoints /\ n_inside >= 1 /\ n_inside < n_seen

\* C2: with drop_outside set a point adds 1 to cell (r, c) exactly when
\* edge[c] <= x < edge[c+1] and edge[r] <= y < edge[r+1], and adds nothing
\* anywhere otherwise (a value on an interior edge goes to the bin on its
\* right, a value on the last edge is outside); in the test's scenario the
\* 40 points with 0 <= x < 10 are the only ones counted, every column of
\* row 1 is nonzero and row 0 is all zero.
C2_HalfOpenBins ==
    /\ [][(PointStep /\ drop_outside) =>
            \A r \in 1 .. NumYBins, c \in 1 .. NumXBins :
                out'[r][c] - out[r][c] =
                    IF InBin(x_edges, c, cur'[1]) /\ InBin(y_edges, r, cur'[2])
                    THEN 1 ELSE 0]_vars
    /\ []((scenario /\ drop_outside /\ pc = "done") =>
            /\ GridTotal(out) = 40
            /\ \A c \in 1 .. NumXBins : out[2][c] > 0 /\ out[1][c] = 0)

C2_Witness ==
    /\ ~scenario /\ drop_outside /\ NumXBins = 2 /\ n_seen = 2
    /\ cur[1] = x_edges[2] /\ x_edges[1] < x_edges[2] /\ x_edges[2] < x_edges[3]
    /\ InBin(y_edges, 1, cur[2])
    /\ out[1][2] >= 1

\* C3: with drop_outside off every point adds exactly 1 to exactly one
\* cell: the cell of its own bin, an outside coordinate being attributed to
\* the nearest boundary bin (first bin below the first edge, last bin at or
\* above the last edge), independently in X and in Y.
C3_ClampedToNearestBin ==
    [][(PointStep /\ ~drop_outside) =>
          \A r \in 1 .. NumYBins, c \in 1 .. NumXBins :
              out'[r][c] - out[r][c] =
                  IF NearestBin(x_edges, c, cur'[1]) /\ NearestBin(y_edges, r, cur'[2])
                  THEN 1 ELSE 0]_vars

C3_Witness ==
    /\ ~scenario /\ ~drop_outside /\ pc = "done" /\ n_seen = 2
    /\ NumXBins = 2 /\ NumYBins = 2
    /\ cur[1] >= x_edges[3] /\ cur[2] < y_edges[1]
    /\ out[1][2] >= 1

-----------------------------------------------------------------------------
(* SpecReduce: bin_by_edges applied to a point sequence, then to two parts *)
(* of it or to a permutation of it                                         *)

\* SpecReduce bins sequences of at most MaxRun points
MaxRun == 3

ReduceXEdges == {<<1, 3>>, <<0, 2, 3>>}
ReduceYEdges == {<<1, 2>>, <<0, 1, 3>>}
ReducePoints == {0, 1, 2, 3} \X {0, 1}

SeqsUpTo(S, n) == UNION {[1 .. k -> S] : k \in 0 .. n}

IndexPerms(n) == {f \in [1 .. n -> 1 .. n] : \A i, j \in 1 .. n : f[i] = f[j] => i = j}

ReduceInit ==
    /\ pc = "start"
    /\ x_edges \in ReduceXEdges
    /\ y_edges \in ReduceYEdges
    /\ drop_outside \in BOOLEAN
    /\ pts \in SeqsUpTo(ReducePoints, MaxRun)
    /\ grid_whole = Null /\ parts = Null /\ part_grids = Null
    /\ out = Null /\ cur = Null /\ n_seen = 0 /\ n_inside = 0 /\ scenario = FALSE
    /\ fn = "" /\ args = Null /\ ret = Null /\ raised = "" /\ span = Null
    /\ HistIdle

\* bin the whole sequence
BinWhole ==
    /\ pc = "start"
    /\ grid_whole' = bin_by_edges(pts, x_edges, y_edges, drop_outside)
    /\ pc' = "whole"
    /\ UNCHANGED <<binVars, fnVars, histVars, pts, parts, part_grids>>

\* partition the sequence in two and bin each part
BinParts ==
    /\ pc = "whole"
    /\ \E k \in 0 .. Len(pts) :
          /\ parts' = <<SubSeq(pts, 1, k), SubSeq(pts, k + 1, Len(pts))>>
          /\ part_grids' = <<bin_by_edges(parts'[1], x_edges, y_edges, drop_outside),
                             bin_by_edges(parts'[2], x_edges, y_edges, drop_outside)>>
    /\ pc' = "parts"
    /\ UNCHANGED <<binVars, fnVars, histVars, pts, grid_whole>>

\* bin the points in another order
BinPermuted ==
    /\ pc = "whole"
    /\ \E f \in IndexPerms(Len(pts)) :
          /\ parts' = <<[i \in 1 .. Len(pts) |-> pts[f[i]]]>>
          /\ part_grids' = <<bin_by_edges(parts'[1], x_edges, y_edges, drop_outside)>>
    /\ pc' = "permuted"
    /\ UNCHANGED <<binVars, fnVars, histVars, pts, grid_whole>>

ReduceNext == BinWhole \/ BinParts \/ BinPermuted

SpecReduce == ReduceInit /\ [][ReduceNext]_vars

GridAdd(g, h) == [r \in DOMAIN g |-> [c \in DOMAIN g[r] |-> g[r][c] + h[r][c]]]

\* C4: binning is a commutative, associative reduction: the grid of a
\* concatenation is the cell-wise sum of the grids of its two parts, and
\* the grid of any permutation of a sequence is the grid of the sequence.
C4_ReductionOverPoints ==
    /\ pc = "parts" => grid_whole = GridAdd(part_grids[1], part_grids[2])
    /\ pc = "permuted" => grid_whole = part_grids[1]

C4_Witness ==
    /\ pc = "permuted" /\ Len(pts) = MaxRun /\ parts[1] # pts /\ drop_outside
    /\ GridTotal(grid_whole) = 2 /\ grid_whole = part_grids[1]
    /\ InsideRect(pts[2], x_edges, y_edges) /\ ~InsideRect(pts[1], x_edges, y_edges)

-----------------------------------------------------------------------------
(* Numbers.  A value is an integer count of units of 1/Scale.  Decimal      *)
(* arithmetic rounds every result to Prec significant digits, half to even  *)
(* (Python's default context, whose precision is 28 digits; the model's     *)
(* context has precision Prec and smallest quantum one unit).  Fractions    *)
(* are exact.  A float has MantBits fraction bits (53-bit doubles have 52). *)

\* significant digits of the Decimal context
Prec == 3
\* fraction bits of a float
MantBits == 4

Scale == 10 ^ 3

Abs(x) == IF x < 0 THEN -x ELSE x
Sign(x) == IF x < 0 THEN -1 ELSE 1

Pow10s == {10 ^ k : k \in 0 .. 5}
Pow2s == {2 ^ k : k \in 0 .. 12}

\* round the non-negative rational a / d to an integer, half to even
RoundHalfEven(a, d) ==
    LET c == a \div d
        r == a % d
    IN  IF 2 * r > d \/ (2 * r = d /\ c % 2 = 1) THEN c + 1 ELSE c

\* the quantum at which a / d has at most Prec digits
RoundQuantum(a, d) ==
    CHOOSE q \in Pow10s :
        /\ a \div (d * q) < 10 ^ Prec
        /\ \A q2 \in Pow10s : q2 < q => a \div (d * q2) >= 10 ^ Prec

\* the rational n / d (d > 0) rounded to the context's precision
DecRound(n, d) ==
    LET q == RoundQuantum(Abs(n), d)
    IN  Sign(n) * q * RoundHalfEven(Abs(n), d * q)

\* Decimal + Decimal, Decimal - Decimal, int * Decimal, Decimal / int
DecAdd(a, b) == DecRound(a + b, 1)
DecSub(a, b) == DecRound(a - b, 1)
DecMulInt(k, a) == DecRound(k * a, 1)
DecDivInt(a, k) == DecRound(a, k)
\* Decimal / Decimal for a positive divisor: the quotient as a value
DecDiv(a, b) == DecRound(a * Scale, b)

\* math.floor, math.ceil and round of a value, as integers
Floor(x) == x \div Scale
Ceil(x) == -((-x) \div Scale)
RoundInt(x) == Sign(x) * RoundHalfEven(Abs(x), Scale)

\* the quantum of x written with Prec digits (at least one unit)
FullQuantum(x) ==
    LET qs == {q \in Pow10s : Abs(x) >= q * 10 ^ (Prec - 1)}
    IN  IF qs = {} THEN 1 ELSE CHOOSE q \in qs : \A q2 \in qs : q2 <= q

\* Decimal.next_minus: the largest representable value below x
next_minus(x) ==
    LET q == FullQuantum(x)
    IN  IF x > 0 /\ x = q * 10 ^ (Prec - 1) /\ q > 1 THEN x - q \div 10
        ELSE x - q

\* math.ulp(x) as the rational <<num, den>>: 2^(e - MantBits) for
\* 2^e <= |x| < 2^(e+1); the smallest positive value for x = 0
Ulp(x) ==
    IF x = 0 THEN <<1, 1>>
    ELSE IF Abs(x) >= Scale
         THEN LET p == CHOOSE p \in Pow2s : p * Scale <= Abs(x) /\ Abs(x) < 2 * p * Scale
              IN  <<p * Scale, 2 ^ MantBits>>
         ELSE LET p == CHOOSE p \in Pow2s : Scale <= p * Abs(x) /\ p * Abs(x) < 2 * Scale
              IN  <<Scale, p * 2 ^ MantBits>>

-----------------------------------------------------------------------------
(* binning.py: ranges and edges.  A ValueRange is a record [min, max].      *)

ValueRange(lo, hi) == [min |-> lo, max |-> hi]

SeqMin(vs) == CHOOSE v \in {vs[i] : i \in DOMAIN vs} : \A i \in DOMAIN vs : v <= vs[i]
SeqMax(vs) == CHOOSE v \in {vs[i] : i \in DOMAIN vs} : \A i \in DOMAIN vs : v >= vs[i]

\* calc_value_range whose top is the largest value itself
calc_value_range_no_ulp(values) ==
    IF values = <<>> THEN ValueRange(0, Scale)
    ELSE ValueRange(SeqMin(values), SeqMax(values))

\* calc_value_range(values)
calc_value_range(values) ==
    IF values = <<>> THEN ValueRange(0, Scale)
    ELSE LET min_value == SeqMin(values)
             max_value == SeqMax(values)
             ulp == Ulp(max_value)
             range_top == DecRound(max_value * ulp[2] + ulp[1], ulp[2])
         IN  ValueRange(min_value, range_top)

\* align_value_range(vr, alignment_arg)
align_value_range(vr, alignment) ==
    LET width == DecSub(vr.max, vr.min)
        aligned_min == DecMulInt(Floor(DecDiv(vr.min, alignment)), alignment)
        aligned_max == DecMulInt(Ceil(DecDiv(vr.max, alignment)), alignment)
        shift_for_min == DecSub(vr.min, aligned_min)
        shift_for_max == DecSub(aligned_max, vr.max)
    IN  IF shift_for_min < shift_for_max
        THEN ValueRange(aligned_min, DecAdd(aligned_min, width))
        ELSE ValueRange(DecSub(aligned_max, width), aligned_max)

\* force_value_range_width(vr, width)
force_value_range_width(vr, width) ==
    LET half_width == DecDivInt(width, 2)
        midpoint == DecDivInt(DecAdd(vr.max, vr.min), 2)
    IN  ValueRange(DecSub(midpoint, half_width), DecAdd(midpoint, half_width))

\* the values 1, 2 and 5 times a power of ten
NiceValues == {d * q : d \in {1, 2, 5}, q \in Pow10s}

\* util.round_up_ish of the rational n / d > 0: the smallest nice value
\* that is not smaller
round_up_ish(n, d) ==
    CHOOSE v \in NiceValues :
        /\ v * d >= n
        /\ \A w \in NiceValues : w * d >= n => v <= w

\* segment_interval: min_step_size
MinStepSize(num_steps, vr) == DecDivInt(DecSub(vr.max, vr.min), num_steps)

\* floor(Fraction(value) / step_size) * step_size
FloorToStep(value, step_size) == (value \div step_size) * step_size

\* segment_interval with align: the step size after the optional bump
AlignedStep(num_steps, vr) ==
    LET step_size == round_up_ish(MinStepSize(num_steps, vr), 1)
        first_edge == FloorToStep(vr.min, step_size)
    IN  IF first_edge + num_steps * step_size < vr.max
        THEN round_up_ish(65 * step_size, 64)
        ELSE step_size

\* segment_interval with align: edge_pairs, the candidates given to most_round
EdgePairs(num_steps, vr) ==
    LET step_size == AlignedStep(num_steps, vr)
        first_edge == FloorToStep(vr.min, step_size)
        last_edge == first_edge + step_size * num_steps
        max_step_slop == (last_edge - vr.max) \div step_size
    IN  {<<first_edge + step_shift * step_size, last_edge + end_step_shift * step_size>> :
            <<step_shift, end_step_shift>> \in
                {sh \in (-max_step_slop .. 0) \X (-max_step_slop .. 0) : sh[2] <= sh[1]}}

\* util.most_round(edge_pairs): the pairs it may return, one of those given
most_round(edge_pairs) == edge_pairs

\* segment_interval that returns all stepped values untrimmed
segment_interval_untrimmed(num_outputs, vr, align, pick) ==
    LET num_steps == num_outputs - 1
        step_size == IF align THEN AlignedStep(num_steps, vr) ELSE MinStepSize(num_steps, vr)
        first_edge == IF align THEN pick[1] ELSE vr.min
    IN  [i \in 1 .. num_outputs |->
            IF align THEN first_edge + step_size * (i - 1)
            ELSE DecAdd(first_edge, DecMulInt(i - 1, step_size))]

\* segment_interval(num_outputs, value_range, align); pick is the pair
\* <<first_edge, last_edge>> that most_round returned (unused without align)
segment_interval(num_outputs, vr, align, pick) ==
    LET num_steps == num_outputs - 1
        step_size == IF align THEN AlignedStep(num_steps, vr) ELSE MinStepSize(num_steps, vr)
        first_edge == IF align THEN pick[1] ELSE vr.min
        last_edge == IF align THEN pick[2] ELSE vr.max
        stepped_values ==
            [i \in 1 .. num_outputs |->
                IF align THEN first_edge + step_size * (i - 1)
                ELSE DecAdd(first_edge, DecMulInt(i - 1, step_size))]
    IN  SelectSeq(stepped_values, LAMBDA v : v <= last_edge)

\* the pairs segment_interval may get from most_round
SegmentPicks(num_outputs, vr, align) ==
    IF align THEN most_round(EdgePairs(num_outputs - 1, vr)) ELSE {<<vr.min, vr.max>>}

-----------------------------------------------------------------------------
(* binning.py: edges by bin size *)

\* the loop of edge_range from the running value v
RECURSIVE EdgeLoop(_, _, _, _)
EdgeLoop(v, limit, step, align) ==
    IF v < limit
    THEN <<IF align THEN DecMulInt(RoundInt(DecDiv(v, step)), step) ELSE v>>
         \o EdgeLoop(DecAdd(v, step), limit, step, align)
    ELSE <<>>

\* edge_range(rng, step_arg, align), as the tuple of the values it yields
edge_range(rng, step, align) ==
    LET v == IF align THEN DecMulInt(Floor(DecDiv(rng.min, step)), step) ELSE rng.min
    IN  EdgeLoop(v, next_minus(DecAdd(rng.max, step)), step, align)

\* make_edges(rng, step_arg, align)
make_edges(rng, step, align) == edge_range(rng, step, align)

-----------------------------------------------------------------------------
(* SpecFn: one call of calc_value_range, segment_interval or make_edges *)

\* values of ranges and data are the tenths from -MaxTenths to MaxTenths
MaxTenths == 30
\* segment_interval is asked for 1 .. MaxBins bins
MaxBins == 5
\* calc_value_range gets at most MaxData values
MaxData == 2

Tenths == {(Scale \div 10) * k : k \in -MaxTenths .. MaxTenths}

\* the data values handed to calc_value_range: every third tenth
DataVals == {v \in Tenths : v % (3 * (Scale \div 10)) = 0}

\* the ends of the ranges and the steps handed to make_edges
EdgeVals == {-1000, -500, 0, 1, 300, 1000, 1010, 2000}
EdgeSteps == {300, 500, 1000}

FnCalls ==
    {[name |-> "calc_value_range", values |-> vs] : vs \in SeqsUpTo(DataVals, MaxData)}
    \cup
    {[name |-> "segment_interval", num_outputs |-> n + 1,
      value_range |-> ValueRange(lo, hi), align |-> al] :
        n \in 1 .. MaxBins, al \in BOOLEAN,
        <<lo, hi>> \in {r \in Tenths \X Tenths : r[1] < r[2]}}
    \cup
    {[name |-> "make_edges", value_range |-> ValueRange(lo, hi),
      step |-> st, align |-> al] :
        st \in EdgeSteps, al \in BOOLEAN,
        <<lo, hi>> \in {r \in EdgeVals \X EdgeVals : r[1] < r[2]}}

FnInit ==
    /\ pc = "call"
    /\ \E c \in FnCalls : fn = c.name /\ args = c
    /\ ret = Null /\ raised = "" /\ span = Null
    /\ x_edges = Null /\ y_edges = Null /\ drop_outside = FALSE
    /\ out = Null /\ cur = Null /\ n_seen = 0 /\ n_inside = 0 /\ scenario = FALSE
    /\ pts = Null /\ grid_whole = Null /\ parts = Null /\ part_grids = Null
    /\ HistIdle

FnFrame == UNCHANGED <<binVars, redVars, histVars, fn, args, span>>

CallCalcValueRange ==
    /\ pc = "call" /\ fn = "calc_value_range"
    /\ LET vr == calc_value_range(args.values)
       IN  ret' = <<vr.min, vr.max>>
    /\ raised' = ""
    /\ pc' = "returned"
    /\ FnFrame

\* most_round is given a non-empty list and returns one of its pairs
CallSegmentInterval ==
    /\ pc = "call" /\ fn = "segment_interval"
    /\ \E pick \in SegmentPicks(args.num_outputs, args.value_range, args.align) :
          ret' = segment_interval(args.num_outputs, args.value_range, args.align, pick)
    /\ raised' = ""
    /\ pc' = "returned"
    /\ FnFrame

\* most_round is given the empty list: the unpacking of its result fails
CallSegmentIntervalRaises ==
    /\ pc = "call" /\ fn = "segment_interval"
    /\ SegmentPicks(args.num_outputs, args.value_range, args.align) = {}
    /\ ret' = Null
    /\ raised' = "Error"
    /\ pc' = "raised"
    /\ FnFrame

CallMakeEdges ==
    /\ pc = "call" /\ fn = "make_edges"
    /\ ret' = make_edges(args.value_range, args.step, args.align)
    /\ raised' = ""
    /\ pc' = "returned"
    /\ FnFrame

FnNext ==
    \/ CallCalcValueRange
    \/ CallSegmentInterval
    \/ CallSegmentIntervalRaises
    \/ CallMakeEdges

SpecFn == FnInit /\ [][FnNext]_vars

\* consecutive entries of s differ by exactly d
EvenlySpaced(s, d) == \A i \in 1 .. Len(s) - 1 : s[i + 1] - s[i] = d

SegDone(al) == pc # "call" /\ fn = "segment_interval" /\ args.align = al

\* C6: for every range with min < max and every n >= 1 the edges chosen by
\* count with alignment are returned, strictly increasing and evenly
\* spaced, start at or below range.min, end at or above range.max, and
\* number between 2 and n + 1.
C6_AlignedEdgesCoverRange ==
    SegDone(TRUE) =>
        /\ raised = ""
        /\ Len(ret) >= 2 /\ Len(ret) <= args.num_outputs
        /\ ret[2] > ret[1] /\ EvenlySpaced(ret, ret[2] - ret[1])
        /\ ret[1] <= args.value_range.min
        /\ ret[Len(ret)] >= args.value_range.max

\* C9: for every range with min < max and every n >= 1 segment_interval
\* without alignment returns exactly n + 1 evenly spaced edges, the first
\* range.min and the last range.max.
C9_PlainEdgesExact ==
    SegDone(FALSE) =>
        /\ raised = ""
        /\ Len(ret) = args.num_outputs
        /\ ret[1] = args.value_range.min
        /\ ret[Len(ret)] = args.value_range.max
        /\ EvenlySpaced(ret, ret[2] - ret[1])

\* C13: make_edges with a positive step on a range with min < max returns
\* an increasing sequence spaced exactly one step apart, whose first value
\* is rng.min (align off) or rng.min rounded down to a multiple of step
\* (align on), whose last value is at or above rng.max and whose
\* second-to-last value is below rng.max.
C13_EdgesBySizeCoverRange ==
    (pc = "returned" /\ fn = "make_edges") =>
        /\ Len(ret) >= 1
        /\ EvenlySpaced(ret, args.step)
        /\ ret[1] = IF args.align THEN FloorToStep(args.value_range.min, args.step)
                                 ELSE args.value_range.min
        /\ ret[Len(ret)] >= args.value_range.max
        /\ Len(ret) >= 2 => ret[Len(ret) - 1] < args.value_range.max

CvrDone == pc = "returned" /\ fn = "calc_value_range"

\* C7: calc_value_range of a non-empty sequence returns a range whose min
\* is the smallest value and whose max is strictly greater than the
\* largest value, by about one unit in the last place of the largest
\* value, so that min <= v < max for every value v; of an empty sequence
\* it returns [0, 1].
C7_RangeFromData ==
    CvrDone =>
        IF args.values = <<>>
        THEN ret = <<0, Scale>>
        ELSE LET largest == SeqMax(args.values)
                 ulp == Ulp(largest)
             IN  /\ ret[1] = SeqMin(args.values)
                 /\ ret[2] > largest
                 /\ (ret[2] - largest) * ulp[2] <= 2 * ulp[1]
                 /\ \A i \in DOMAIN args.values :
                       ret[1] <= args.values[i] /\ args.values[i] < ret[2]

C7_Witness ==
    /\ CvrDone
    /\ Len(args.values) = 2
    /\ args.values[1] > args.values[2]
    /\ ret[1] = args.values[2]
    /\ ret[2] > args.values[1]

-----------------------------------------------------------------------------
(* binning.py: the arguments of histogram2d *)

DEFAULT_NUM_BINS == <<10, 10>>

\* The bins argument is [kind, a, b]: None; an int a[1]; one sequence a;
\* a tuple of two ints (a[1], b[1]); a tuple of two sequences (a, b).
BinsNone == [kind |-> "None", a |-> <<>>, b |-> <<>>]
BinsInt(n) == [kind |-> "int", a |-> <<n>>, b |-> <<>>]
BinsSeq(e) == [kind |-> "seq", a |-> e, b |-> <<>>]
BinsIntTuple(nx, ny) == [kind |-> "int_tuple", a |-> <<nx>>, b |-> <<ny>>]
BinsSeqTuple(xe, ye) == [kind |-> "seq_tuple", a |-> xe, b |-> ye]

\* expand_bins_arg that ignores its argument
expand_bins_arg_default(bins) == <<FALSE, DEFAULT_NUM_BINS, Null>>

\* expand_bins_arg(bins): <<specified, num_bins, bin_positions>>, or
\* <<"ValueError">> for a sequence of at most two entries that is no tuple
expand_bins_arg(bins) ==
    IF bins.kind = "None" THEN <<FALSE, DEFAULT_NUM_BINS, Null>>
    ELSE IF bins.kind = "int" THEN <<TRUE, <<bins.a[1], bins.a[1]>>, Null>>
    ELSE IF bins.kind = "seq"
         THEN IF Len(bins.a) > 2
              THEN <<TRUE, <<Len(bins.a) - 1, Len(bins.a) - 1>>, <<bins.a, bins.a>>>>
              ELSE <<"ValueError">>
    ELSE IF bins.kind = "int_tuple" THEN <<TRUE, <<bins.a[1], bins.b[1]>>, Null>>
    ELSE <<TRUE, <<Len(bins.a) - 1, Len(bins.b) - 1>>, <<bins.a, bins.b>>>>

\* The bin_size argument is [kind, a, b]: None; one number a; a tuple (a, b).
SizeNone == [kind |-> "None", a |-> 0, b |-> 0]
SizeNum(sz) == [kind |-> "num", a |-> sz, b |-> 0]
SizeTuple(sx, sy) == [kind |-> "tuple", a |-> sx, b |-> sy]

\* expand_bin_size_arg(bin_size)
expand_bin_size_arg(bin_size) ==
    IF bin_size.kind = "None" THEN Null
    ELSE IF bin_size.kind = "tuple" THEN <<bin_size.a, bin_size.b>>
    ELSE <<bin_size.a, bin_size.a>>

\* range_from_arg_or_data(range_arg, points), points being one coordinate
range_from_arg_or_data(range_arg, values) ==
    IF range_arg # Null THEN ValueRange(range_arg[1], range_arg[2])
    ELSE calc_value_range(values)

\* any(ranges)
AnyRanges(ranges) == ranges[1] # Null \/ ranges[2] # Null

\* the test of histogram2d for bins given as a count with bin_size and ranges left out
CountSizeRangeConflict_off(specified, sizes, ranges) == FALSE

\* the second test of histogram2d: number of bins and bin size and plot range
CountSizeRangeConflict(specified, sizes, ranges) ==
    specified /\ sizes # Null /\ AnyRanges(ranges)

\* the first test of histogram2d: bin edges and plot range
EdgesRangeConflict(edges, ranges) == edges # Null /\ AnyRanges(ranges)

\* the range of one dimension after histogram2d has forced and aligned it
SizedRange(rng, specified, sizes, n, sz, align) ==
    IF specified /\ sizes # Null
    THEN LET forced == force_value_range_width(rng, DecMulInt(n, sz))
         IN  IF align THEN align_value_range(forced, sz) ELSE forced
    ELSE rng

\* float(x) for a Decimal x, as a fraction <<numerator, denominator>> of units
FloatOf(x) ==
    IF x = 0 THEN <<0, 1>>
    ELSE LET ulp == Ulp(x)
         IN  <<Sign(x) * RoundHalfEven(Abs(x) * ulp[2], ulp[1]) * ulp[1], ulp[2]>>

\* Axis((edges[0], edges[-1]), values_are_edges=True): its value_range
Axis(edges) == <<FloatOf(edges[1]), FloatOf(edges[Len(edges)])>>

\* bin_by_edges fails on an index: a point is put into a grid without cells
BinByEdgesRaises(points, xe, ye, drop) ==
    ~drop /\ points # <<>> /\ (Len(xe) < 2 \/ Len(ye) < 2)

-----------------------------------------------------------------------------
(* SpecHist: one call of histogram2d *)

\* histogram2d gets at most MaxHistPoints points
MaxHistPoints == 2

HistPoints == {<<-2900, 0>>, <<-800, 1000>>, <<2500, 0>>}

BinsArgs ==
    {BinsNone, BinsInt(1), BinsIntTuple(5, 5), BinsIntTuple(3, 2),
     BinsSeq(<<0, 1000>>), BinsSeq(<<-1000, 0, 1000, 3000>>),
     BinsSeqTuple(<<0, 1000, 2000>>, <<0, 500, 1000>>)}

RangesArgs ==
    {Null, <<Null, Null>>, <<<<0, 2000>>, Null>>, <<Null, <<0, 1000>>>>,
     <<<<-3000, 3000>>, <<0, 2000>>>>}

BinSizeArgs ==
    {SizeNone, SizeNum(500), SizeNum(4000), SizeTuple(1000, 500)}

HistCalls ==
    [points : SeqsUpTo(HistPoints, MaxHistPoints), bins : BinsArgs,
     ranges : RangesArgs, bin_size : BinSizeArgs,
     align : BOOLEAN, drop_outside : BOOLEAN]

HistInit ==
    /\ pc = "h_call"
    /\ fn = "histogram2d"
    /\ args \in HistCalls
    /\ ret = Null /\ raised = "" /\ span = Null
    /\ HistIdle
    /\ x_edges = Null /\ y_edges = Null /\ drop_outside = FALSE
    /\ out = Null /\ cur = Null /\ n_seen = 0 /\ n_inside = 0 /\ scenario = FALSE
    /\ pts = Null /\ grid_whole = Null /\ parts = Null /\ part_grids = Null

\* ranges after `if ranges is None: ranges = (None, None)`
RangesOf(a) == IF a.ranges = Null THEN <<Null, Null>> ELSE a.ranges

Xs(points) == [i \in DOMAIN points |-> points[i][1]]
Ys(points) == [i \in DOMAIN points |-> points[i][2]]

HistFrame == UNCHANGED <<redVars, fn, args, span, out, cur, n_seen, n_inside, scenario>>

\* the arguments are unusable: expand_bins_arg or one of the two tests raises
HistRejectArgs ==
    /\ pc = "h_call"
    /\ LET e == expand_bins_arg(args.bins)
       IN  \/ Len(e) = 1
           \/ /\ Len(e) = 3
              /\ \/ EdgesRangeConflict(e[3], RangesOf(args))
                 \/ CountSizeRangeConflict(e[1], expand_bin_size_arg(args.bin_size),
                                           RangesOf(args))
    /\ raised' = "ValueError"
    /\ pc' = "raised"
    /\ UNCHANGED <<histVars, x_edges, y_edges, drop_outside, ret>>
    /\ HistFrame

\* the arguments are expanded and pass both tests
HistExpandArgs ==
    /\ pc = "h_call"
    /\ LET e == expand_bins_arg(args.bins)
           sizes == expand_bin_size_arg(args.bin_size)
       IN  /\ Len(e) = 3
           /\ ~EdgesRangeConflict(e[3], RangesOf(args))
           /\ ~CountSizeRangeConflict(e[1], sizes, RangesOf(args))
           /\ bins_specified' = e[1]
           /\ num_bins' = e[2]
           /\ bin_edges' = e[3]
           /\ bin_sizes' = sizes
    /\ pc' = "h_ranges"
    /\ UNCHANGED <<x_range, y_range, x_edges, y_edges, drop_outside, ret, raised>>
    /\ HistFrame

\* the ranges are taken from the argument or the data, then forced to the
\* width num_bins * bin_sizes and aligned when both are given
HistRanges ==
    /\ pc = "h_ranges"
    /\ LET xr == range_from_arg_or_data(RangesOf(args)[1], Xs(args.points))
           yr == range_from_arg_or_data(RangesOf(args)[2], Ys(args.points))
           sx == IF bin_sizes = Null THEN 0 ELSE bin_sizes[1]
           sy == IF bin_sizes = Null THEN 0 ELSE bin_sizes[2]
       IN  /\ x_range' = SizedRange(xr, bins_specified, bin_sizes, num_bins[1], sx, args.align)
           /\ y_range' = SizedRange(yr, bins_specified, bin_sizes, num_bins[2], sy, args.align)
    /\ pc' = "h_edges"
    /\ UNCHANGED <<bins_specified, num_bins, bin_edges, bin_sizes,
                   x_edges, y_edges, drop_outside, ret, raised>>
    /\ HistFrame

\* the edges are the given ones, or made by bin size, or by number of bins
HistEdges ==
    /\ pc = "h_edges"
    /\ IF bin_edges # Null
       THEN x_edges' = bin_edges[1] /\ y_edges' = bin_edges[2]
       ELSE IF bin_sizes # Null
       THEN /\ x_edges' = make_edges(x_range, bin_sizes[1], args.align)
            /\ y_edges' = make_edges(y_range, bin_sizes[2], args.align)
       ELSE /\ \E pick \in SegmentPicks(num_bins[1] + 1, x_range, args.align) :
                  x_edges' = segment_interval(num_bins[1] + 1, x_range, args.align, pick)
            /\ \E pick \in SegmentPicks(num_bins[2] + 1, y_range, args.align) :
                  y_edges' = segment_interval(num_bins[2] + 1, y_range, args.align, pick)
    /\ pc' = "h_bin"
    /\ UNCHANGED <<histVars, drop_outside, ret, raised>>
    /\ HistFrame

\* segment_interval hands most_round an empty list
HistEdgesRaises ==
    /\ pc = "h_edges"
    /\ bin_edges = Null /\ bin_sizes = Null
    /\ \/ SegmentPicks(num_bins[1] + 1, x_range, args.align) = {}
       \/ SegmentPicks(num_bins[2] + 1, y_range, args.align) = {}
    /\ raised' = "Error"
    /\ pc' = "raised"
    /\ UNCHANGED <<histVars, x_edges, y_edges, drop_outside, ret>>
    /\ HistFrame

\* the axes are built and the points are binned
HistReturn ==
    /\ pc = "h_bin"
    /\ ~BinByEdgesRaises(args.points, x_edges, y_edges, args.drop_outside)
    /\ drop_outside' = args.drop_outside
    /\ ret' = <<bin_by_edges(args.points, x_edges, y_edges, args.drop_outside),
                Axis(x_edges), Axis(y_edges)>>
    /\ pc' = "returned"
    /\ UNCHANGED <<histVars, x_edges, y_edges, raised>>
    /\ HistFrame

\* bin_by_edges raises
HistBinRaises ==
    /\ pc = "h_bin"
    /\ BinByEdgesRaises(args.points, x_edges, y_edges, args.drop_outside)
    /\ drop_outside' = args.drop_outside
    /\ raised' = "Error"
    /\ pc' = "raised"
    /\ UNCHANGED <<histVars, x_edges, y_edges, ret>>
    /\ HistFrame

HistNext ==
    \/ HistRejectArgs
    \/ HistExpandArgs
    \/ HistRanges
    \/ HistEdges
    \/ HistEdgesRaises
    \/ HistReturn
    \/ HistBinRaises

SpecHist == HistInit /\ [][HistNext]_vars

-----------------------------------------------------------------------------
(* Claims about histogram2d *)

HistDone == fn = "histogram2d" /\ pc \in {"returned", "raised"}

\* a range is given for at least one dimension
RangeGiven(a) == a.ranges # Null /\ (a.ranges[1] # Null \/ a.ranges[2] # Null)

BinsAsEdges(a) == a.bins.kind \in {"seq", "seq_tuple"}
BinsAsCount(a) == a.bins.kind \in {"int", "int_tuple"}

\* the two conflicting combinations
Conflict(a) ==
    \/ BinsAsEdges(a) /\ RangeGiven(a)
    \/ BinsAsCount(a) /\ a.bin_size.kind # "None" /\ RangeGiven(a)

\* a single sequence stands for edges when it has more than two entries
WellFormedBins(a) == a.bins.kind = "seq" => Len(a.bins.a) > 2

AxisIs(ax, lo, hi) == ax[1][1] = lo * ax[1][2] /\ ax[2][1] = hi * ax[2][2]

EmptyData55(a) ==
    /\ a.points = <<>>
    /\ a.bins = BinsIntTuple(5, 5)
    /\ ~RangeGiven(a)
    /\ a.bin_size = SizeNone
    /\ a.align

\* C8: histogram2d of an empty point list with bins (5, 5), no ranges and
\* alignment on returns a grid of 5 rows by 5 columns of zeros and X and Y
\* axes whose ranges are both [0, 1].
C8_EmptyDataDefaultRange ==
    (HistDone /\ EmptyData55(args)) =>
        /\ pc = "returned"
        /\ ret[1] = ZeroGrid(5, 5)
        /\ AxisIs(ret[2], 0, Scale)
        /\ AxisIs(ret[3], 0, Scale)

C8_Witness ==
    /\ HistDone /\ EmptyData55(args)
    /\ pc = "returned"
    /\ Len(ret[1]) = 5 /\ Len(ret[1][1]) = 5
    /\ x_edges = [i \in 1 .. 6 |-> (i - 1) * (Scale \div 5)]

CountAndSize(a) ==
    /\ BinsAsCount(a)
    /\ a.bin_size.kind # "None"
    /\ ~RangeGiven(a)

\* the edges of one dimension are n bins of size sz: centered on the data
\* range without alignment, multiples of sz at most sz / 2 away from the
\* centered position with it
FixedBins(edges, n, sz, data, align) ==
    LET rng == calc_value_range(data)
        centered2 == rng.min + rng.max - n * sz
    IN  /\ Len(edges) = n + 1
        /\ EvenlySpaced(edges, sz)
        /\ ~align => 2 * edges[1] = centered2
        /\ align => /\ \A i \in DOMAIN edges : edges[i] % sz = 0
                    /\ Abs(2 * edges[1] - centered2) <= sz

\* C10: histogram2d with bins as counts (nx, ny), bin_size (sx, sy) and no
\* ranges returns a grid of ny rows by nx columns whose consecutive edges
\* are exactly bin_size apart; without alignment the edge span is centered
\* on the midpoint of the data range, with alignment every edge is a
\* multiple of bin_size and the span is at most half a bin size away from
\* the centered position.
C10_FixedNumberAndSize ==
    (HistDone /\ CountAndSize(args)) =>
        /\ pc = "returned"
        /\ Len(ret[1]) = num_bins[2]
        /\ \A r \in DOMAIN ret[1] : Len(ret[1][r]) = num_bins[1]
        /\ FixedBins(x_edges, num_bins[1], bin_sizes[1], Xs(args.points), args.align)
        /\ FixedBins(y_edges, num_bins[2], bin_sizes[2], Ys(args.points), args.align)

\* C11: a call of histogram2d with bins as edge sequences and a bin_size
\* that is not None is rejected with ValueError; it is never accepted with
\* one of the two arguments ignored.
C11_EdgesWithBinSizeRejected ==
    (HistDone /\ BinsAsEdges(args) /\ WellFormedBins(args)
              /\ args.bin_size.kind # "None") =>
        pc = "raised" /\ raised = "ValueError"

\* the values expand_bins_arg is to give for the bins argument b
ExpectedSpecified(b) == b.kind # "None"
ExpectedNumBins(b) ==
    IF b.kind = "None" THEN <<10, 10>>
    ELSE IF b.kind = "int" THEN <<b.a[1], b.a[1]>>
    ELSE IF b.kind = "int_tuple" THEN <<b.a[1], b.b[1]>>
    ELSE IF b.kind = "seq" THEN <<Len(b.a) - 1, Len(b.a) - 1>>
    ELSE <<Len(b.a) - 1, Len(b.b) - 1>>
ExpectedEdges(b) ==
    IF b.kind = "seq" THEN <<b.a, b.a>>
    ELSE IF b.kind = "seq_tuple" THEN <<b.a, b.b>>
    ELSE Null

\* C12: the bins argument is resolved for each of its shapes: an int n gives
\* (n, n) and no edges, a pair of ints those counts, one sequence of N + 1
\* edges (every N >= 1) gives (N, N) with the edges used for both
\* dimensions, a pair of sequences gives their lengths minus one with the
\* edges used verbatim, and None gives (10, 10) marked as not specified.
C12_BinsArgResolved ==
    (fn = "histogram2d" /\ pc # "h_call" /\ ~Conflict(args)) =>
        /\ raised # "ValueError"
        /\ bins_specified = ExpectedSpecified(args.bins)
        /\ num_bins = ExpectedNumBins(args.bins)
        /\ bin_edges = ExpectedEdges(args.bins)
        /\ (pc = "returned" /\ BinsAsEdges(args)) =>
               x_edges = bin_edges[1] /\ y_edges = bin_edges[2]

-----------------------------------------------------------------------------
(* axis.py and util.py: step sizes *)

\* util.sfrexp10(value) for value > 0: <<sign, frac, exp>> with
\* value = frac * 10 ^ exp and 0.1 <= frac < 1.0; frac is given as
\* <<value, 10 ^ exp>> and exp as the value of 10 ^ exp
sfrexp10(value) ==
    LET p == CHOOSE p \in Pow10s : p <= value /\ value < 10 * p
    IN  <<1, <<value, 10 * p>>, 10 * p>>

\* pick_step_size that rounds down to the decade
pick_step_size_down(lower_bound) == sfrexp10(lower_bound)[3] \div 10

\* axis.pick_step_size(lower_bound) for lower_bound > 0
pick_step_size(lower_bound) ==
    LET fe == sfrexp10(lower_bound)
        frac == fe[2]
        exp == fe[3]
    IN  IF 10 * frac[1] <= 2 * frac[2] THEN 2 * (exp \div 10)
        ELSE IF 10 * frac[1] <= 5 * frac[2] THEN 5 * (exp \div 10)
        ELSE exp

\* the steps between labels that util.pick_step_size starts from
CommonStepsPerLabel(min_steps_per_label) ==
    IF min_steps_per_label <= 2 THEN min_steps_per_label
    ELSE IF min_steps_per_label <= 5 THEN 5
    ELSE Max2(min_steps_per_label, 10)

\* nominal_step of util.pick_step_size
NominalStep(vr, num_steps_hint) ==
    DecDivInt(DecSub(vr.max, vr.min), Max2(1, num_steps_hint))

\* frac < t / 10 as computed in floating point: exact away from the
\* threshold, either way (below) on it
FracBelow(nominal, decade, t, below) ==
    10 * nominal < t * decade \/ (10 * nominal = t * decade /\ below)

\* util.pick_step_size whose thresholds are 1, 2 and 5
util_pick_step_size_up(vr, num_steps_hint, min_steps_per_label, below) ==
    LET nominal_step == NominalStep(vr, num_steps_hint)
        decade == CHOOSE p \in Pow10s : p <= nominal_step /\ nominal_step < 10 * p
        step == IF nominal_step <= decade THEN decade
                ELSE IF nominal_step <= 2 * decade THEN 2 * decade
                ELSE IF nominal_step <= 5 * decade THEN 5 * decade
                ELSE 10 * decade
    IN  <<step, DecMulInt(CommonStepsPerLabel(min_steps_per_label), step)>>

\* util.pick_step_size that labels every fifth step of 0.2 from the start
util_pick_step_size_fifth(vr, num_steps_hint, min_steps_per_label, below) ==
    LET nominal_step == NominalStep(vr, num_steps_hint)
        decade == CHOOSE p \in Pow10s : p <= nominal_step /\ nominal_step < 10 * p
    IN  IF FracBelow(nominal_step, decade, 11, below) THEN <<decade, decade>>
        ELSE IF FracBelow(nominal_step, decade, 22, below)
             THEN <<2 * decade, DecMulInt(5, 2 * decade)>>
        ELSE <<5 * decade, 5 * decade>>

\* util.pick_step_size(value_range, num_steps_hint, min_steps_per_label)
\* for a range of positive width
util_pick_step_size(vr, num_steps_hint, min_steps_per_label, below) ==
    LET nominal_step == NominalStep(vr, num_steps_hint)
        decade == CHOOSE p \in Pow10s : p <= nominal_step /\ nominal_step < 10 * p
        common == CommonStepsPerLabel(min_steps_per_label)
    IN  IF FracBelow(nominal_step, decade, 11, below)
        THEN <<decade, DecMulInt(common, decade)>>
        ELSE IF FracBelow(nominal_step, decade, 22, below)
        THEN LET steps_per_label == IF common = 2 THEN 5 ELSE common
             IN  <<2 * decade, DecMulInt(steps_per_label, 2 * decade)>>
        ELSE IF FracBelow(nominal_step, decade, 55, below)
        THEN LET steps_per_label ==
                     IF common = 5
                     THEN Max2(RoundHalfEven(min_steps_per_label, 2) * 2, 6)
                     ELSE common
             IN  <<5 * decade, DecMulInt(steps_per_label, 5 * decade)>>
        ELSE <<10 * decade, DecMulInt(common, 10 * decade)>>

-----------------------------------------------------------------------------
(* axis.py: tick values and labels *)

\* Strings are sequences of one-character strings.
DigitChars == <<"0", "1", "2", "3", "4", "5", "6", "7", "8", "9">>

\* the decimal digits of a natural number
RECURSIVE IntDigits(_)
IntDigits(n) ==
    IF n < 10 THEN <<DigitChars[n + 1]>>
    ELSE IntDigits(n \div 10) \o <<DigitChars[(n % 10) + 1]>>

\* the digits of the fraction f / scale without trailing zeros
RECURSIVE FracDigits(_, _)
FracDigits(f, scale) ==
    IF f = 0 THEN <<>>
    ELSE <<DigitChars[((10 * f) \div scale) + 1]>> \o FracDigits((10 * f) % scale, scale)

\* util.sanitize_decimals on one value: the value without redundant
\* trailing zeros; the value itself is unchanged
sanitize_decimals(v) == v

\* "{}".format(v) for a sanitized Decimal v
Format(v) ==
    LET a == Abs(v)
        frac == FracDigits(a % Scale, Scale)
    IN  (IF v < 0 THEN <<"-">> ELSE <<>>)
        \o IntDigits(a \div Scale)
        \o (IF frac = <<>> THEN <<>> ELSE <<".">> \o frac)

\* the loop of gen_tick_values from the running value tick
RECURSIVE TickLoop(_, _, _)
TickLoop(tick, top, tick_step) ==
    IF tick <= top
    THEN <<tick>> \o TickLoop(DecAdd(tick, tick_step), top, tick_step)
    ELSE <<>>

\* the loop of gen_tick_values never ends: tick += tick_step leaves a
\* tick that is still in the range unchanged, because the sum rounds back
\* to the tick at the precision of the context
RECURSIVE TickLoopStalls(_, _, _)
TickLoopStalls(tick, top, tick_step) ==
    IF tick > top THEN FALSE
    ELSE IF DecAdd(tick, tick_step) <= tick THEN TRUE
    ELSE TickLoopStalls(DecAdd(tick, tick_step), top, tick_step)

\* tuple(gen_tick_values(value_range, tick_step)) never returns
gen_tick_values_stalls(vr, tick_step) ==
    TickLoopStalls(DecMulInt(Ceil(DecDiv(vr.min, tick_step)), tick_step), vr.max, tick_step)

\* gen_tick_values(value_range, tick_step), as the tuple of its values
gen_tick_values(vr, tick_step) ==
    TickLoop(DecMulInt(Ceil(DecDiv(vr.min, tick_step)), tick_step), vr.max, tick_step)

\* fmt.format(v) for the formats "{}" and ""
FormatWith(fmt, v) == IF fmt = "{}" THEN Format(v) ELSE <<>>

\* positions_to_labels(printed_positions, ticked_positions, fmt): a
\* function from positions to label strings
positions_to_labels(printed_positions, ticked_positions, fmt) ==
    LET printed == {sanitize_decimals(printed_positions[i]) : i \in DOMAIN printed_positions}
        ticked == {ticked_positions[i] : i \in DOMAIN ticked_positions}
    IN  [q \in ticked \cup printed |-> IF q \in printed THEN FormatWith(fmt, q) ELSE <<>>]

\* positions[start::stride] with a 0-based start
Slice(positions, start, stride) ==
    [i \in 1 .. ((Len(positions) - start + stride - 1) \div stride) |->
        positions[start + (i - 1) * stride + 1]]

\* the leading digit of a positive value
LeadingDigit(v) == LET p == CHOOSE p \in Pow10s : p <= v /\ v < 10 * p IN v \div p

\* gen_position_subsets(positions, tick_step)
gen_position_subsets(positions, tick_step) ==
    LET step_digit == LeadingDigit(tick_step)
    IN  IF step_digit \in {1, 2}
        THEN [k \in 1 .. 5 |-> Slice(positions, k - 1, 5)]
        ELSE IF step_digit = 5
        THEN [k \in 1 .. 2 |-> Slice(positions, k - 1, 2)]
        ELSE <<>>

\* the widest label of a non-empty subset
SeqMaxLen(subset) ==
    LET labels == positions_to_labels(subset, <<>>, "{}")
    IN  SeqMax([i \in DOMAIN subset |-> Len(labels[subset[i]])])

\* the test of find_fitting_subset: max(printed_widths) <= ticks_per_bin * 2 - 2
Fits(subset, ticks_per_bin) == SeqMaxLen(subset) * Scale <= 2 * ticks_per_bin - 2 * Scale

\* find_fitting_subset that takes the first subset
find_fitting_subset_first(ordered, ticks_per_bin, accomodate_values) ==
    IF ordered = <<>> THEN <<>> ELSE Head(ordered)

\* find_fitting_subset(position_subsets, ticks_per_bin, accomodate_values, fmt)
\* on the sequence that util.roundness_ordered gives
RECURSIVE find_fitting_subset(_, _, _)
find_fitting_subset(ordered, ticks_per_bin, accomodate_values) ==
    IF ordered = <<>> THEN <<>>
    ELSE IF ~accomodate_values THEN Head(ordered)
    ELSE IF Fits(Head(ordered), ticks_per_bin) THEN Head(ordered)
    ELSE find_fitting_subset(Tail(ordered), ticks_per_bin, accomodate_values)

\* util.roundness_ordered(position_subsets): the subsets in some order
roundness_ordered(position_subsets) ==
    {[i \in DOMAIN position_subsets |-> position_subsets[f[i]]] :
        f \in IndexPerms(Len(position_subsets))}

-----------------------------------------------------------------------------
(* axis.py: the labels of an axis *)

\* sorted(labels.keys())
RECURSIVE SortedSeq(_)
SortedSeq(S) ==
    IF S = {} THEN <<>>
    ELSE LET m == CHOOSE m \in S : \A o \in S : m <= o
         IN  <<m>> \o SortedSeq(S \ {m})

\* the exponent of a power of ten
Log10(p) == CHOOSE k \in 0 .. 5 : 10 ^ k = p

\* the quantum 10 ^ exp of a step size Decimal((0, (digit,), exp))
StepQuantum(tick_step) == tick_step \div LeadingDigit(tick_step)

\* len("{}".format(v)) for a tick v that is not sanitized: a multiple of a
\* step with quantum q keeps the exponent of the step, so that it is
\* printed with all the fraction digits of the step, and in scientific
\* notation when the exponent is positive
RawWidth(v, q) ==
    LET sign == IF v < 0 THEN 1 ELSE 0
        n == Len(IntDigits(Abs(v) \div q))
    IN  IF q = Scale THEN sign + Len(IntDigits(Abs(v) \div Scale))
        ELSE IF q < Scale
        THEN sign + Len(IntDigits(Abs(v) \div Scale)) + 1 + Log10(Scale \div q)
        ELSE sign + n + (IF n > 1 THEN 1 ELSE 0) + 2
             + Len(IntDigits(Log10(q \div Scale) + n - 1))

\* sorted(widths)[:3][-1]: the third lowest width, or the highest of fewer
ExampleWidth(widths) ==
    widths[CHOOSE i \in DOMAIN widths :
           Cardinality({j \in DOMAIN widths :
                          widths[j] < widths[i] \/ (widths[j] = widths[i] /\ j < i)})
           = Min2(3, Len(widths)) - 1]

\* calc_min_step with accomodate_values does not return: the ticks of its
\* test step never end
calc_min_step_stalls(vr) ==
    gen_tick_values_stalls(vr, pick_step_size(DecDivInt(DecSub(vr.max, vr.min), 5)))

\* calc_min_step(value_range, bin_width, accomodate_values, tick_space, fmt)
calc_min_step(vr, bin_width, accomodate_values, tick_space, fmt) ==
    IF accomodate_values
    THEN LET test_tick_step == pick_step_size(DecDivInt(DecSub(vr.max, vr.min), 5))
             test_values == gen_tick_values(vr, test_tick_step)
             widths_in_bins == [i \in DOMAIN test_values |->
                                  IF fmt = "{}"
                                  THEN RawWidth(test_values[i], StepQuantum(test_tick_step))
                                  ELSE 0]
             example_width == ExampleWidth(widths_in_bins)
             min_printed_step == DecMulInt(example_width + 1, bin_width)
         IN  Max2(min_printed_step, DecMulInt(2 + tick_space * 2, bin_width))
    ELSE DecMulInt(2 + tick_space, bin_width)

\* label_ends_only(positions, tick_step, bin_width, accomodate_values, fmt)
label_ends_only(positions, tick_step, bin_width, accomodate_values, fmt) ==
    LET end_positions == <<positions[1], positions[Len(positions)]>>
        ends_printed == positions_to_labels(end_positions, <<>>, fmt)
        half_len_first == Len(ends_printed[end_positions[1]]) \div 2
        half_len_last == (Len(ends_printed[end_positions[2]]) + 1) \div 2
        space_available == Floor(DecDiv(tick_step, bin_width))
    IN  IF ~accomodate_values
        THEN positions_to_labels(end_positions, positions, fmt)
        ELSE IF half_len_first + half_len_last <= space_available
        THEN positions_to_labels(end_positions, positions, fmt)
        ELSE positions_to_labels(<<end_positions[1]>>, positions, fmt)

\* pick_step_size(float(cur_tick_step) * 1.01): the product is taken as
\* the exact 101 hundredths; sfrexp10 and the tests are those of
\* pick_step_size
pick_step_size_retry(cur_tick_step) ==
    LET num == 101 * cur_tick_step
        p == CHOOSE p \in Pow10s : 100 * p <= num /\ num < 1000 * p
    IN  IF 10 * num <= 2 * (1000 * p) THEN 2 * p
        ELSE IF 10 * num <= 5 * (1000 * p) THEN 5 * p
        ELSE 10 * p

\* gen_full_labels divides by zero bins; the exception
gen_full_labels_raises(vr, n_bins) ==
    IF n_bins # 0 THEN ""
    ELSE IF vr.max = vr.min THEN "InvalidOperation" ELSE "DivisionByZero"

\* gen_full_labels(value_range, num_bins, accomodate_values, tick_space,
\* fmt) for num_bins # 0: the set of label maps it can return, one for each
\* order that util.roundness_ordered can give, and the empty set when it
\* does not return because gen_tick_values never ends; LabelLoop is its
\* loop from the step cur_tick_step on
RECURSIVE gen_full_labels(_, _, _, _, _)
RECURSIVE LabelLoop(_, _, _, _, _, _, _)
LabelLoop(vr, n_bins, bin_width, cur_tick_step, accomodate_values, tick_space, fmt) ==
    LET positions == gen_tick_values(vr, cur_tick_step)
        position_subsets == gen_position_subsets(positions, cur_tick_step)
        best_subsets == {find_fitting_subset(o, DecDiv(cur_tick_step, bin_width),
                                             accomodate_values) :
                            o \in roundness_ordered(position_subsets)}
    IN  IF gen_tick_values_stalls(vr, cur_tick_step) THEN {}
        ELSE IF Len(positions) = 0
        THEN IF accomodate_values
             THEN gen_full_labels(vr, n_bins, FALSE, tick_space, "")
             ELSE {<<>>}
        ELSE IF Len(positions) = 1
        THEN {positions_to_labels(positions, <<>>, fmt)}
        ELSE IF \A k \in DOMAIN position_subsets : Len(position_subsets[k]) <= 1
        THEN {label_ends_only(positions, cur_tick_step, bin_width, accomodate_values, fmt)}
        ELSE IF best_subsets # {<<>>}
        THEN {positions_to_labels(best_subset, positions, fmt) :
                 best_subset \in best_subsets \ {<<>>}}
        ELSE LabelLoop(vr, n_bins, bin_width, pick_step_size_retry(cur_tick_step),
                       accomodate_values, tick_space, fmt)

gen_full_labels(vr, n_bins, accomodate_values, tick_space, fmt) ==
    LET bin_width == DecDivInt(DecSub(vr.max, vr.min), n_bins)
        min_step == calc_min_step(vr, bin_width, accomodate_values, tick_space, fmt)
    IN  IF bin_width <= 0 THEN {<<>>}
        ELSE IF accomodate_values /\ calc_min_step_stalls(vr) THEN {}
        ELSE LabelLoop(vr, n_bins, bin_width, pick_step_size(min_step),
                       accomodate_values, tick_space, fmt)

-----------------------------------------------------------------------------
(* axis.py: rendering the X axis *)

\* The line-drawing characters are written in ASCII:
\* "|" vertical tick, "/" and "\\" the diagonal pair, "-" the border line,
\* "[" and "]" its ends, "+" a tick merged into a border character.
\* A character of a line is one string.
x_border(border_line) ==
    IF border_line THEN [first |-> "[", middle |-> "-", last |-> "]"]
    ELSE [first |-> " ", middle |-> " ", last |-> " "]

\* lineart.merge_chars(tick, under): one character for the two
merge_chars(tick, under) == IF under = " " THEN tick ELSE "+"

\* character * n as a list of characters (empty for n <= 0)
Repeat(char, n) == [i \in 1 .. n |-> char]

\* Decimal.next_plus: the smallest representable value above x
next_plus(x) == -next_minus(-x)

\* calc_edges divides by zero
calc_edges_raises(vr, n_bins, values_are_edges) ==
    (values_are_edges \/ n_bins = 1) /\ n_bins = 0

\* calc_edges(value_range, num_bins, values_are_edges): the n_bins + 1
\* edges whose consecutive pairs are the bins
calc_edges(vr, n_bins, values_are_edges) ==
    LET width == DecSub(vr.max, vr.min)
        whole == values_are_edges \/ n_bins = 1
        bin_delta == IF whole THEN DecDivInt(width, n_bins)
                     ELSE Sign(n_bins - 1) * DecDivInt(width, Abs(n_bins - 1))
        first_bin_min == IF whole THEN vr.min
                         ELSE DecSub(vr.min, DecDivInt(bin_delta, 2))
    IN  [i \in 1 .. n_bins + 1 |-> DecAdd(first_bin_min, DecMulInt(i - 1, bin_delta))]

\* line[idx] = char for a 0-based idx inside the line
SetAt(line, idx, char) == [line EXCEPT ![idx + 1] = char]

\* LeftIdx that never steps to the column on the left
LeftIdx_right(start_pos, left_margin) == Floor(start_pos) + left_margin

\* the 0-based column left of the tick in add_x_tick
LeftIdx(start_pos, left_margin) ==
    LET margined_idx == Floor(start_pos) + left_margin
    IN  IF start_pos % Scale < Scale \div 4 THEN Max2(margined_idx - 1, 0) ELSE margined_idx

\* add_x_tick indexes a column that the line does not have
add_x_tick_raises(line, start_pos, left_margin) ==
    LET fractional_pos == start_pos % Scale
    IN  IF Scale \div 4 <= fractional_pos /\ fractional_pos <= 3 * (Scale \div 4)
        THEN Floor(start_pos) + left_margin >= Len(line)
        ELSE LeftIdx(start_pos, left_margin) + 1 >= Len(line)

\* add_x_tick(line, start_pos, left_margin, num_cols) for start_pos >= 0
add_x_tick(line, start_pos, left_margin, num_cols) ==
    LET base_idx == Floor(start_pos)
        fractional_pos == start_pos % Scale
        margined_idx == base_idx + left_margin
        left_idx == LeftIdx(start_pos, left_margin)
        left == IF base_idx = 0
                THEN SetAt(line, left_idx, merge_chars("|", line[left_idx + 1]))
                ELSE SetAt(line, left_idx, "/")
    IN  IF Scale \div 4 <= fractional_pos /\ fractional_pos <= 3 * (Scale \div 4)
        THEN SetAt(line, margined_idx, merge_chars("|", line[margined_idx + 1]))
        ELSE IF base_idx >= num_cols - 1
        THEN SetAt(left, left_idx + 1, merge_chars("|", left[left_idx + 2]))
        ELSE SetAt(left, left_idx + 1, "\\")

\* add_x_label(line, label, ctr_pos): the slice line[start_col:end_col] is
\* replaced by the label; a slice that reaches beyond the line extends it
add_x_label(line, label, ctr_pos) ==
    LET width == Len(label)
        start_col == Max2(ctr_pos + 490 - 500 * width, 0) \div Scale
        end_col == start_col + width
    IN  SubSeq(line, 1, Min2(start_col, Len(line))) \o label
        \o SubSeq(line, Min2(end_col, Len(line)) + 1, Len(line))

\* offset_frac of render_as_x: dividing by a column without width
offset_raises(fractional_tick_pos, col_min, col_max) ==
    fractional_tick_pos /\ col_max = col_min

\* the loop of render_as_x from column col_idx (0-based) on; st holds the
\* two lines, the labels still to place and the exception raised
RECURSIVE RenderLoop(_, _, _, _, _, _, _)
RenderLoop(st, col_idx, edges, labels, fractional_tick_pos, left_margin, num_cols) ==
    IF col_idx >= Len(edges) - 1 \/ st.raised # "" THEN st
    ELSE LET col_min == edges[col_idx + 1]
             col_max == edges[col_idx + 2]
             label_values == st.label_values
             here == /\ label_values # <<>>
                     /\ col_min <= label_values[1]
                     /\ label_values[1] <= next_plus(col_max)
             offset_frac == IF fractional_tick_pos
                            THEN DecDiv(DecSub(label_values[1], col_min),
                                        DecSub(col_max, col_min))
                            ELSE Scale \div 2
             start_pos == IF fractional_tick_pos
                          THEN DecAdd(col_idx * Scale, offset_frac)
                          ELSE col_idx * Scale + offset_frac
             ctr_pos == IF fractional_tick_pos
                        THEN DecAdd((col_idx + left_margin) * Scale, offset_frac)
                        ELSE (col_idx + left_margin) * Scale + offset_frac
             next == IF ~here THEN st
                     ELSE IF offset_raises(fractional_tick_pos, col_min, col_max)
                     THEN [st EXCEPT !.raised = "DivisionByZero"]
                     ELSE IF add_x_tick_raises(st.tick_line, start_pos, left_margin)
                     THEN [st EXCEPT !.raised = "IndexError"]
                     ELSE [tick_line |-> add_x_tick(st.tick_line, start_pos,
                                                    left_margin, num_cols),
                           label_line |-> add_x_label(st.label_line,
                                                      labels[label_values[1]], ctr_pos),
                           label_values |-> Tail(label_values),
                           raised |-> ""]
         IN  RenderLoop(next, col_idx + 1, edges, labels, fractional_tick_pos,
                        left_margin, num_cols)

\* Axis.render_as_x(num_cols, left_margin) with the label map labels:
\* the lines and the exception raised
render_as_x(axis, labels, num_cols, left_margin) ==
    IF calc_edges_raises(axis.value_range, num_cols, axis.values_are_edges)
    THEN [tick_line |-> <<>>, label_line |-> <<>>, label_values |-> <<>>,
          raised |-> "DivisionByZero"]
    ELSE LET border == x_border(axis.border_line)
             tick_line == Repeat(" ", left_margin - 1) \o <<border.first>>
                          \o Repeat(border.middle, num_cols) \o <<border.last>>
         IN  RenderLoop([tick_line |-> tick_line,
                         label_line |-> Repeat(" ", Len(tick_line)),
                         label_values |-> SortedSeq(DOMAIN labels),
                         raised |-> ""],
                        0, calc_edges(axis.value_range, num_cols, axis.values_are_edges),
                        labels, axis.fractional_tick_pos, left_margin, num_cols)

-----------------------------------------------------------------------------
(* axis.py: rendering the Y axis *)

\* The characters of the Y axis in ASCII: "-" the tick in the middle of a
\* row, "^" the tick in its first quarter, "_" the tick in its last
\* quarter, "|" the border line, "," and "'" its ends.
y_border(border_line) ==
    IF border_line THEN [first |-> ",", middle |-> "|", last |-> "'"]
    ELSE [first |-> " ", middle |-> " ", last |-> " "]

\* str.translate(lineart.flip_vertical) on one character
flip_vertical(char) ==
    CASE char = "^" -> "_"
      [] char = "_" -> "^"
      [] char = "," -> "'"
      [] char = "'" -> ","
      [] OTHER -> char

\* lineart.display_len(label_str)
display_len(label_str) == Len(label_str)

\* the tick character of a label at value in the row row_min .. row_max,
\* row_min < row_max; the quotient of floats is taken as exact
TickChar(value, row_min, row_max, fractional_tick_pos) ==
    IF fractional_tick_pos /\ 1000 * (value - row_min) < 249 * (row_max - row_min)
    THEN "^"
    ELSE IF fractional_tick_pos /\ 1000 * (value - row_min) > 751 * (row_max - row_min)
    THEN "_"
    ELSE "-"

\* the loop of _unjustified_y_axis from row row_idx (0-based) on; st holds
\* the lines made, the labels still to place and the exception raised
RECURSIVE YLoop(_, _, _, _, _)
YLoop(st, row_idx, edges, labels, axis) ==
    IF row_idx >= Len(edges) - 1 \/ st.raised # "" THEN st
    ELSE LET row_min == edges[row_idx + 1]
             row_max == edges[row_idx + 2]
             label_values == st.label_values
             here == /\ label_values # <<>>
                     /\ row_min <= label_values[1]
                     /\ label_values[1] <= row_max
             tick == merge_chars(TickChar(label_values[1], row_min, row_max,
                                          axis.fractional_tick_pos),
                                 y_border(axis.border_line).middle)
             next == IF ~here
                     THEN [st EXCEPT !.lines = Append(@, <<y_border(axis.border_line).middle>>)]
                     ELSE IF row_max = row_min
                     THEN [st EXCEPT !.raised = "ZeroDivisionError"]
                     ELSE [lines |-> Append(st.lines, labels[label_values[1]] \o <<tick>>),
                           label_values |-> Tail(label_values),
                           raised |-> ""]
         IN  YLoop(next, row_idx + 1, edges, labels, axis)

\* list(self._unjustified_y_axis(num_rows)) with the label map labels
unjustified_y_axis(axis, labels, num_rows) ==
    IF calc_edges_raises(axis.value_range, num_rows, axis.values_are_edges)
    THEN [lines |-> <<>>, label_values |-> <<>>, raised |-> "DivisionByZero"]
    ELSE YLoop([lines |-> <<>>, label_values |-> SortedSeq(DOMAIN labels), raised |-> ""],
               0, calc_edges(axis.value_range, num_rows, axis.values_are_edges),
               labels, axis)

\* the lines of render_as_y after flipping and padding
UnpaddedLabels(axis, lines, pad_top, pad_bot, flip) ==
    LET flipped == IF flip
                   THEN [i \in DOMAIN lines |->
                           [k \in DOMAIN lines[Len(lines) + 1 - i] |->
                               flip_vertical(lines[Len(lines) + 1 - i][k])]]
                   ELSE lines
    IN  (IF pad_top THEN <<<<y_border(axis.border_line).first>>>> ELSE <<>>)
        \o flipped
        \o (IF pad_bot THEN <<<<y_border(axis.border_line).last>>>> ELSE <<>>)

\* Axis.render_as_y(num_rows, pad_top, pad_bot, flip) with the label map
\* labels: the lines and the exception raised
render_as_y(axis, labels, num_rows, pad_top, pad_bot, flip) ==
    LET u == unjustified_y_axis(axis, labels, num_rows)
        unpadded_labels == UnpaddedLabels(axis, u.lines, pad_top, pad_bot, flip)
        lengths == [i \in DOMAIN unpadded_labels |-> display_len(unpadded_labels[i])]
        max_width == SeqMax(lengths)
    IN  IF u.raised # "" THEN [lines |-> <<>>, raised |-> u.raised]
        ELSE IF unpadded_labels = <<>> THEN [lines |-> <<>>, raised |-> "ValueError"]
        ELSE [lines |-> [i \in DOMAIN unpadded_labels |->
                            Repeat(" ", max_width - lengths[i]) \o unpadded_labels[i]],
              raised |-> ""]

-----------------------------------------------------------------------------
(* SpecAxis: one call of a function of axis.py or of util.pick_step_size *)

\* axis.pick_step_size is called with -1 .. MaxLower thousandths
MaxLower == 120
\* util.pick_step_size is called with widths up to MaxWidth twentieths,
\* hints up to MaxHint and up to MaxMinSteps steps per label
MaxWidth == 40
MaxHint == 5
MaxMinSteps == 7
\* find_fitting_subset is called with up to MaxTicksPerBin half bins per tick
MaxTicksPerBin == 8

\* the renderers are called with up to MaxCols cells and a left margin of
\* up to MaxMargin characters
MaxCols == 6
MaxMargin == 2

\* Strings as lists of characters
Str0 == <<"0">>
Str5 == <<"5">>
Str10 == <<"1", "0">>
Str12345 == <<"1", "2", "3", "4", "5">>
StrA == <<"a">>
StrB == <<"b">>

\* the value ranges of the axes: 0..1, 0..10, -1.5..1.5, 1..1 and 2..1
AxisRanges ==
    {<<0, Scale>>, <<0, 10 * Scale>>, <<-3 * (Scale \div 2), 3 * (Scale \div 2)>>,
     <<Scale, Scale>>, <<2 * Scale, Scale>>}

\* the label maps given to an axis over 0..10
LabelMaps ==
    {<<>>, (10 * Scale :> Str12345), (0 :> Str0) @@ (10 * Scale :> Str10),
     (0 :> Str0) @@ (5 * Scale :> Str5) @@ (10 * Scale :> Str10),
     (-5 * Scale :> StrA) @@ (5 * Scale :> StrB)}

\* Axis(value_range, labels, values_are_edges=.., fractional_tick_pos=..,
\* border_line=..); labels is None when labels_given is false
Axes ==
    {[value_range |-> r, labels_given |-> FALSE, labels |-> <<>>,
      values_are_edges |-> ve, fractional_tick_pos |-> ft, border_line |-> bl] :
        r \in AxisRanges, ve \in BOOLEAN, ft \in BOOLEAN, bl \in BOOLEAN}
    \cup
    {[value_range |-> <<0, 10 * Scale>>, labels_given |-> TRUE, labels |-> m,
      values_are_edges |-> ve, fractional_tick_pos |-> ft, border_line |-> bl] :
        m \in LabelMaps, ve \in BOOLEAN, ft \in BOOLEAN, bl \in BOOLEAN}

\* gen_full_labels is also called for an axis of MaxFineCols cells over
\* the ranges 0..3 and -1..2
MaxFineCols == 120
FineRanges == {<<0, 3 * Scale>>, <<-Scale, 2 * Scale>>}

\* value ranges given as Decimals with more digits than the context
\* keeps: 100 .. 100.01 and 100 .. 100.02
LongRanges == {<<100 * Scale, 100 * Scale + 10>>, <<100 * Scale, 100 * Scale + 20>>}

\* the offsets of a tick within its column: twentieths of the column from
\* 0 to 1, and the offset 1.01 that Decimal.next_plus lets through
TickOffsets == {(Scale \div 20) * k : k \in 0 .. 20} \cup {Scale + Scale \div 100}

\* the ranges and tick steps whose label subsets find_fitting_subset gets
FitTicks ==
    {<<ValueRange(0, 1000), 100>>, <<ValueRange(-1500, 1500), 500>>,
     <<ValueRange(950, 1050), 10>>, <<ValueRange(-2000, 2000), 200>>}

AxisCalls ==
    {[name |-> "pick_step_size", lower_bound |-> b] : b \in -1 .. MaxLower}
    \cup
    {[name |-> "util.pick_step_size", value_range |-> ValueRange(lo, lo + w),
      num_steps_hint |-> h, min_steps_per_label |-> m] :
        lo \in {-Scale, 0}, w \in {(Scale \div 20) * k : k \in -1 .. MaxWidth},
        h \in 0 .. MaxHint, m \in 1 .. MaxMinSteps}
    \cup
    {[name |-> "find_fitting_subset", ordered |-> o,
      ticks_per_bin |-> (Scale \div 2) * t, accomodate_values |-> acc] :
        t \in 1 .. MaxTicksPerBin, acc \in BOOLEAN,
        o \in UNION {roundness_ordered(gen_position_subsets(
                         gen_tick_values(rs[1], rs[2]), rs[2])) : rs \in FitTicks}}
    \cup
    {[name |-> "render_as_x", axis |-> a, num_cols |-> n, left_margin |-> m] :
        a \in Axes, n \in 0 .. MaxCols, m \in 0 .. MaxMargin}
    \cup
    {[name |-> "add_x_tick",
      line |-> Repeat(" ", m - 1) \o <<x_border(bl).first>>
               \o Repeat(x_border(bl).middle, c[1]) \o <<x_border(bl).last>>,
      start_pos |-> c[2] * Scale + off, left_margin |-> m, num_cols |-> c[1]] :
        c \in {c \in (1 .. MaxCols) \X (0 .. MaxCols - 1) : c[2] < c[1]},
        m \in 0 .. MaxMargin, bl \in BOOLEAN, off \in TickOffsets}
    \cup
    {[name |-> "render_as_y", axis |-> a, num_rows |-> n,
      pad_top |-> pt, pad_bot |-> pb, flip |-> fl] :
        a \in Axes, n \in 0 .. MaxCols,
        pt \in BOOLEAN, pb \in BOOLEAN, fl \in BOOLEAN}
    \cup
    {[name |-> "gen_full_labels", value_range |-> ValueRange(r[1], r[2]),
      n_bins |-> n, accomodate_values |-> acc, tick_space |-> ts] :
        r \in AxisRanges, n \in 0 .. MaxCols, acc \in BOOLEAN, ts \in 0 .. 1}
    \cup
    {[name |-> "gen_full_labels", value_range |-> ValueRange(r[1], r[2]),
      n_bins |-> MaxFineCols, accomodate_values |-> acc, tick_space |-> ts] :
        r \in FineRanges, acc \in BOOLEAN, ts \in 0 .. 1}
    \cup
    {[name |-> "gen_full_labels", value_range |-> ValueRange(r[1], r[2]),
      n_bins |-> n, accomodate_values |-> acc, tick_space |-> ts] :
        r \in LongRanges, n \in 1 .. 2, acc \in BOOLEAN, ts \in 0 .. 1}

AxisInit ==
    /\ pc = "call"
    /\ \E c \in AxisCalls : fn = c.name /\ args = c
    /\ ret = Null /\ raised = "" /\ span = Null
    /\ x_edges = Null /\ y_edges = Null /\ drop_outside = FALSE
    /\ out = Null /\ cur = Null /\ n_seen = 0 /\ n_inside = 0 /\ scenario = FALSE
    /\ pts = Null /\ grid_whole = Null /\ parts = Null /\ part_grids = Null
    /\ HistIdle

CallPickStepSize ==
    /\ pc = "call" /\ fn = "pick_step_size"
    /\ args.lower_bound > 0
    /\ ret' = <<pick_step_size(args.lower_bound)>>
    /\ raised' = ""
    /\ pc' = "returned"
    /\ FnFrame

CallPickStepSizeRaises ==
    /\ pc = "call" /\ fn = "pick_step_size"
    /\ args.lower_bound <= 0
    /\ raised' = "ValueError"
    /\ pc' = "raised"
    /\ UNCHANGED ret
    /\ FnFrame

CallUtilPickStepSize ==
    /\ pc = "call" /\ fn = "util.pick_step_size"
    /\ NominalStep(args.value_range, args.num_steps_hint) > 0
    /\ \E below \in BOOLEAN :
          ret' = util_pick_step_size(args.value_range, args.num_steps_hint,
                                     args.min_steps_per_label, below)
    /\ raised' = ""
    /\ pc' = "returned"
    /\ FnFrame

\* math.log10 of a nominal step that is not positive
CallUtilPickStepSizeRaises ==
    /\ pc = "call" /\ fn = "util.pick_step_size"
    /\ NominalStep(args.value_range, args.num_steps_hint) <= 0
    /\ raised' = "ValueError"
    /\ pc' = "raised"
    /\ UNCHANGED ret
    /\ FnFrame

CallFindFittingSubset ==
    /\ pc = "call" /\ fn = "find_fitting_subset"
    /\ ret' = <<find_fitting_subset(args.ordered, args.ticks_per_bin,
                                    args.accomodate_values)>>
    /\ raised' = ""
    /\ pc' = "returned"
    /\ FnFrame

\* Axis.__init__: value_range as ValueRange(Decimal(float(min)),
\* Decimal(float(max))); the conversion of a float to Decimal is exact
AxisInitRange(value_range) ==
    LET lo == FloatOf(value_range[1])
        hi == FloatOf(value_range[2])
    IN  ValueRange(lo[1] \div lo[2], hi[1] \div hi[2])

\* the Axis object of a call
AxisOf(a) == [a EXCEPT !.value_range = AxisInitRange(a.value_range)]

\* the exception at the start of render_as_x: gen_full_labels divides by
\* num_cols = 0
XLabelsRaise(a, num_cols) ==
    IF a.labels_given THEN "" ELSE gen_full_labels_raises(a.value_range, num_cols)

\* labels of render_as_x: the given ones or those of gen_full_labels
XLabels(a, num_cols) ==
    IF a.labels_given THEN {a.labels}
    ELSE gen_full_labels(a.value_range, num_cols, TRUE,
                         IF a.fractional_tick_pos THEN 1 ELSE 0, "{}")

CallRenderAsX ==
    /\ pc = "call" /\ fn = "render_as_x"
    /\ XLabelsRaise(AxisOf(args.axis), args.num_cols) = ""
    /\ \E labels \in XLabels(AxisOf(args.axis), args.num_cols) :
          LET r == render_as_x(AxisOf(args.axis), labels, args.num_cols, args.left_margin)
          IN  /\ r.raised = ""
              /\ ret' = <<r.tick_line, r.label_line>>
    /\ raised' = ""
    /\ pc' = "returned"
    /\ FnFrame

CallRenderAsXRaises ==
    /\ pc = "call" /\ fn = "render_as_x"
    /\ \/ /\ XLabelsRaise(AxisOf(args.axis), args.num_cols) # ""
          /\ raised' = XLabelsRaise(AxisOf(args.axis), args.num_cols)
       \/ /\ XLabelsRaise(AxisOf(args.axis), args.num_cols) = ""
          /\ \E labels \in XLabels(AxisOf(args.axis), args.num_cols) :
                LET r == render_as_x(AxisOf(args.axis), labels, args.num_cols,
                                     args.left_margin)
                IN  /\ r.raised # ""
                    /\ raised' = r.raised
    /\ ret' = Null
    /\ pc' = "raised"
    /\ FnFrame

\* the exception at the start of render_as_y: gen_full_labels divides by
\* num_rows = 0
YLabelsRaise(a, num_rows) ==
    IF a.labels_given THEN "" ELSE gen_full_labels_raises(a.value_range, num_rows)

\* labels of _unjustified_y_axis: the given ones or those of gen_full_labels
YLabels(a, num_rows) ==
    IF a.labels_given THEN {a.labels}
    ELSE gen_full_labels(a.value_range, num_rows, FALSE, 0, "{}")

CallRenderAsY ==
    /\ pc = "call" /\ fn = "render_as_y"
    /\ YLabelsRaise(AxisOf(args.axis), args.num_rows) = ""
    /\ \E labels \in YLabels(AxisOf(args.axis), args.num_rows) :
          LET r == render_as_y(AxisOf(args.axis), labels, args.num_rows,
                               args.pad_top, args.pad_bot, args.flip)
          IN  /\ r.raised = ""
              /\ ret' = r.lines
    /\ raised' = ""
    /\ pc' = "returned"
    /\ FnFrame

CallRenderAsYRaises ==
    /\ pc = "call" /\ fn = "render_as_y"
    /\ \/ /\ YLabelsRaise(AxisOf(args.axis), args.num_rows) # ""
          /\ raised' = YLabelsRaise(AxisOf(args.axis), args.num_rows)
       \/ /\ YLabelsRaise(AxisOf(args.axis), args.num_rows) = ""
          /\ \E labels \in YLabels(AxisOf(args.axis), args.num_rows) :
                LET r == render_as_y(AxisOf(args.axis), labels, args.num_rows,
                                     args.pad_top, args.pad_bot, args.flip)
                IN  /\ r.raised # ""
                    /\ raised' = r.raised
    /\ ret' = Null
    /\ pc' = "raised"
    /\ FnFrame

CallGenFullLabels ==
    /\ pc = "call" /\ fn = "gen_full_labels"
    /\ gen_full_labels_raises(args.value_range, args.n_bins) = ""
    /\ \E labels \in gen_full_labels(args.value_range, args.n_bins,
                                      args.accomodate_values, args.tick_space, "{}") :
          ret' = <<labels>>
    /\ raised' = ""
    /\ pc' = "returned"
    /\ FnFrame

\* the call never returns: it stays in the loop of gen_tick_values
CallGenFullLabelsStalls ==
    /\ pc = "call" /\ fn = "gen_full_labels"
    /\ gen_full_labels_raises(args.value_range, args.n_bins) = ""
    /\ gen_full_labels(args.value_range, args.n_bins,
                       args.accomodate_values, args.tick_space, "{}") = {}
    /\ ret' = Null
    /\ raised' = ""
    /\ pc' = "stalled"
    /\ FnFrame

CallGenFullLabelsRaises ==
    /\ pc = "call" /\ fn = "gen_full_labels"
    /\ gen_full_labels_raises(args.value_range, args.n_bins) # ""
    /\ raised' = gen_full_labels_raises(args.value_range, args.n_bins)
    /\ ret' = Null
    /\ pc' = "raised"
    /\ FnFrame

\* add_x_tick on the tick line that render_as_x made
CallAddXTick ==
    /\ pc = "call" /\ fn = "add_x_tick"
    /\ IF add_x_tick_raises(args.line, args.start_pos, args.left_margin)
       THEN ret' = Null /\ raised' = "IndexError" /\ pc' = "raised"
       ELSE /\ ret' = <<add_x_tick(args.line, args.start_pos, args.left_margin,
                                   args.num_cols)>>
            /\ raised' = ""
            /\ pc' = "returned"
    /\ FnFrame

AxisNext ==
    \/ CallAddXTick
    \/ CallGenFullLabels
    \/ CallGenFullLabelsStalls
    \/ CallGenFullLabelsRaises
    \/ CallRenderAsY
    \/ CallRenderAsYRaises
    \/ CallRenderAsX
    \/ CallRenderAsXRaises
    \/ CallFindFittingSubset
    \/ CallPickStepSize
    \/ CallPickStepSizeRaises
    \/ CallUtilPickStepSize
    \/ CallUtilPickStepSizeRaises

SpecAxis == AxisInit /\ [][AxisNext]_vars

-----------------------------------------------------------------------------
(* Claims about the step sizes *)

PickDone == pc = "returned" /\ fn = "pick_step_size"

\* C14: for every positive lower bound b axis.pick_step_size(b) is a nice
\* value d * 10^k with d in {1, 2, 5}, is not smaller than b, and no nice
\* value lies strictly between b and it.
C14_StepIsNextNiceValue ==
    PickDone =>
        /\ ret[1] \in NiceValues
        /\ ret[1] >= args.lower_bound
        /\ ~ \E v \in NiceValues : args.lower_bound < v /\ v < ret[1]

C14_Witness ==
    /\ PickDone
    /\ args.lower_bound = 30
    /\ ret = <<50>>

\* C15: axis.pick_step_size returns every nice value v = d * 10^k with d in
\* {1, 2, 5} unchanged, powers of ten included, so that the step picked for
\* a picked step is that step.
C15_StepIdempotent ==
    PickDone =>
        /\ args.lower_bound \in NiceValues => ret[1] = args.lower_bound
        /\ pick_step_size(ret[1]) = ret[1]

UtilPickDone == pc = "returned" /\ fn = "util.pick_step_size"

\* C16: the step returned by util.pick_step_size is never smaller than
\* nominal_step = width / max(1, num_steps_hint).
C16_StepNotBelowNominal ==
    UtilPickDone =>
        ret[1] >= NominalStep(args.value_range, args.num_steps_hint)

\* C16 as the code has it: the step is a nice value that is at least
\* nominal_step / 1.1 and at most nominal_step * 5 / 2.2; it is the
\* nearest nice value with a tolerance of a tenth, and can be smaller than
\* nominal_step.
C16_StepWithinTenthOfNominal ==
    UtilPickDone =>
        LET nominal_step == NominalStep(args.value_range, args.num_steps_hint)
        IN  /\ ret[1] \in NiceValues
            /\ 10 * nominal_step <= 11 * ret[1]
            /\ 22 * ret[1] <= 50 * nominal_step

C16_Witness ==
    /\ UtilPickDone
    /\ ret[1] < NominalStep(args.value_range, args.num_steps_hint)
    /\ args.num_steps_hint = 1
    /\ args.value_range = ValueRange(0, 1050)

UnitOverFive ==
    /\ UtilPickDone
    /\ args.value_range.max - args.value_range.min = Scale
    /\ args.num_steps_hint = 5

\* C17: for a range of width 1.0 and 5 steps util.pick_step_size returns
\* the step 0.2, and with the default min_steps_per_label of 1 the interval
\* between labels is five steps, 1.0.
C17_FifthStepByDefault ==
    UnitOverFive =>
        /\ ret[1] = Scale \div 5
        /\ args.min_steps_per_label = 1 => ret[2] = Scale

\* C17 as the code has it: the step is 0.2; the interval between labels is
\* one step, 0.2, for the default min_steps_per_label of 1, five steps, 1.0,
\* for 2 to 5, and max(min_steps_per_label, 10) steps above.
C17_EveryStepByDefault ==
    UnitOverFive =>
        /\ ret[1] = Scale \div 5
        /\ ret[2] = IF args.min_steps_per_label = 1 THEN Scale \div 5
                    ELSE IF args.min_steps_per_label <= 5 THEN Scale
                    ELSE Max2(args.min_steps_per_label, 10) * (Scale \div 5)

C17_Witness ==
    /\ UnitOverFive
    /\ args.min_steps_per_label = 1
    /\ ret = <<200, 200>>

-----------------------------------------------------------------------------
(* Claims about the labels *)

FitDone == pc = "returned" /\ fn = "find_fitting_subset" /\ args.accomodate_values

\* C18: find_fitting_subset with accomodate_values returns the first subset
\* in the order of roundness whose widest printed label is at most
\* 2 * ticks_per_bin - 2 wide, and the empty tuple when no subset fits; it
\* never returns a subset with a wider label.
C18_FirstFittingSubset ==
    FitDone =>
        LET o == args.ordered
            fitting == {i \in DOMAIN o : Fits(o[i], args.ticks_per_bin)}
        IN  IF fitting = {}
            THEN ret[1] = <<>>
            ELSE /\ ret[1] # <<>>
                 /\ SeqMaxLen(ret[1]) * Scale <= 2 * args.ticks_per_bin - 2 * Scale
                 /\ \E i \in fitting : /\ ret[1] = o[i]
                                       /\ \A j \in fitting : i <= j

\* a subset that is not the first of the order is returned
C18_Witness ==
    /\ FitDone
    /\ ret[1] # <<>>
    /\ ret[1] # args.ordered[1]
    /\ ~Fits(args.ordered[1], args.ticks_per_bin)

-----------------------------------------------------------------------------
(* Claims about the rendered X axis *)

RenderXDone ==
    /\ pc = "returned" /\ fn = "render_as_x"
    /\ args.num_cols >= 1 /\ args.left_margin >= 1

\* C20: for num_cols >= 1 and left_margin >= 1 render_as_x returns a tick
\* line and a label line of the same length, left_margin + num_cols + 1
\* characters, whatever the labels are and wherever their ticks are.
C20_LinesOfEqualLength ==
    RenderXDone =>
        /\ Len(ret[1]) = args.left_margin + args.num_cols + 1
        /\ Len(ret[2]) = Len(ret[1])

-----------------------------------------------------------------------------
(* Claims about malformed axes *)

\* a line without a label: blanks and border characters only
BlankLine(line) == \A k \in DOMAIN line : line[k] \in {" ", "[", "-", "]", ",", "|", "'"}

\* C19: gen_full_labels on a range with min >= max, and label generation
\* and the X and Y renderers on zero cells, raise no exception: they return
\* the empty label map and lines without a label.
C19_MalformedInputsDegrade ==
    /\ (fn = "gen_full_labels" /\ pc # "call"
        /\ (args.value_range.min >= args.value_range.max \/ args.n_bins = 0))
       => pc = "returned" /\ ret[1] = <<>>
    /\ (fn = "render_as_x" /\ pc # "call" /\ args.num_cols = 0)
       => pc = "returned" /\ BlankLine(ret[1]) /\ BlankLine(ret[2])
    /\ (fn = "render_as_y" /\ pc # "call" /\ args.num_rows = 0)
       => pc = "returned" /\ \A i \in DOMAIN ret : BlankLine(ret[i])

-----------------------------------------------------------------------------
(* Claims about the ticks of the X axis *)

\* a call of add_x_tick as render_as_x makes it, over
AddXTickOver ==
    /\ fn = "add_x_tick" /\ pc # "call"
    /\ args.num_cols >= 1 /\ args.left_margin >= 1

\* the 1-based indices at which add_x_tick changed the line
Changed == {i \in DOMAIN args.line : i \notin DOMAIN ret[1] \/ ret[1][i] # args.line[i]}

\* a vertical tick, alone or merged into the border
IsVertical(char) == char \in {"|", "+"}

\* the tick is not in the middle half of its column
OffCentre ==
    args.start_pos % Scale < Scale \div 4 \/ args.start_pos % Scale > 3 * (Scale \div 4)

\* C26: a tick at an offset in [0.25, 0.75] of its column is one vertical
\* tick merged into the border character of the column; any other tick is
\* the diagonal pair across the nearest cell boundary, and a half of the
\* pair is a vertical tick only when that boundary is the outer edge of the
\* plot: the one before the first data column or the one after the last.
C26_VerticalHalfOnlyAtOuterEdge ==
    (AddXTickOver /\ pc = "returned") =>
        LET line == ret[1]
            col == Floor(args.start_pos) + args.left_margin
            left_idx == LeftIdx(args.start_pos, args.left_margin)
            outer == \/ left_idx = args.left_margin - 1
                     \/ left_idx = args.left_margin + args.num_cols - 1
        IN  IF ~OffCentre
            THEN line = SetAt(args.line, col, merge_chars("|", args.line[col + 1]))
            ELSE /\ outer \/ (line[left_idx + 1] = "/" /\ line[left_idx + 2] = "\\")
                 /\ IsVertical(line[left_idx + 1]) \/ IsVertical(line[left_idx + 2])
                    => outer

\* C30: for num_cols >= 1 and left_margin >= 1 add_x_tick raises no
\* IndexError for a tick inside a column or on its right edge; it changes
\* at most two characters, which are adjacent and inside the line, and the
\* line keeps its length left_margin + num_cols + 1.
C30_TickStaysInLine ==
    AddXTickOver =>
        /\ pc = "returned"
        /\ Len(ret[1]) = Len(args.line)
        /\ Len(ret[1]) = args.left_margin + args.num_cols + 1
        /\ Cardinality(Changed) <= 2
        /\ \A i, j \in Changed : i - j <= 1

\* the tick of a label at the maximum of the range: offset 1.0 of the last
\* column, written into the last two characters of the line
C30_Witness ==
    /\ AddXTickOver /\ pc = "returned"
    /\ args.start_pos = args.num_cols * Scale
    /\ Changed = {Len(args.line) - 1, Len(args.line)}

-----------------------------------------------------------------------------
(* Claims about the labels of gen_full_labels *)

GenDone == pc = "returned" /\ fn = "gen_full_labels"

\* bin_width and the first tick step of the call, with its ticks and
\* their candidate subsets
FirstBinWidth == DecDivInt(DecSub(args.value_range.max, args.value_range.min), args.n_bins)
FirstStep ==
    pick_step_size(calc_min_step(args.value_range, FirstBinWidth,
                                 args.accomodate_values, args.tick_space, "{}"))
FirstPositions == gen_tick_values(args.value_range, FirstStep)
FirstSubsets == gen_position_subsets(FirstPositions, FirstStep)

\* candidate subsets exist for the first step and none of them fits
NoSubsetFits ==
    /\ args.value_range.min < args.value_range.max
    /\ args.accomodate_values
    /\ \E k \in DOMAIN FirstSubsets : FirstSubsets[k] # <<>>
    /\ \A k \in DOMAIN FirstSubsets :
          FirstSubsets[k] # <<>> => ~Fits(FirstSubsets[k], DecDiv(FirstStep, FirstBinWidth))

\* the ticks of the returned map that have a printed label
Labelled == {p \in DOMAIN ret[1] : ret[1][p] # <<>>}

\* C24: every call of gen_full_labels with min < max and at least one cell
\* ends: it returns a label map (a fit, a single tick, the ends only or no
\* ticks) and is never left in a loop that cannot end.
C24_LabelGenerationTerminates ==
    (/\ fn = "gen_full_labels"
     /\ args.value_range.min < args.value_range.max
     /\ args.n_bins >= 1)
    => pc # "stalled"

\* C25: when candidate subsets exist and none fits the allowed width,
\* gen_full_labels draws all ticks and prints a label only at the first
\* and the last tick, or only at the first.
C25_NoFitLabelsEndsOnly ==
    (GenDone /\ NoSubsetFits) =>
        /\ DOMAIN ret[1] # {}
        /\ \A p \in Labelled :
              \/ \A o \in DOMAIN ret[1] : p <= o
              \/ \A o \in DOMAIN ret[1] : p >= o


-----------------------------------------------------------------------------
(* Claims about the labels that the renderers draw *)

\* the cells of the axis of the call: pairs of edges, closed at both ends,
\* the upper end of a column of the X axis widened by next_plus
DrawnAxisCells ==
    LET n == IF fn = "render_as_x" THEN args.num_cols ELSE args.num_rows
        edges == calc_edges(AxisOf(args.axis).value_range, n, args.axis.values_are_edges)
    IN  {<<edges[k], IF fn = "render_as_x" THEN next_plus(edges[k + 1]) ELSE edges[k + 1]>> :
            k \in 1 .. n}

\* the label values that the call left undrawn
LeftUndrawn ==
    IF fn = "render_as_x"
    THEN render_as_x(AxisOf(args.axis), args.axis.labels, args.num_cols,
                     args.left_margin).label_values
    ELSE unjustified_y_axis(AxisOf(args.axis), args.axis.labels, args.num_rows).label_values

\* a label that can be drawn: some cell holds its value and no other label
Drawable(v) ==
    \E c \in DrawnAxisCells :
        /\ c[1] <= v /\ v <= c[2]
        /\ \A u \in DOMAIN args.axis.labels : u # v => ~(c[1] <= u /\ u <= c[2])

\* C29: a renderer draws every label of an explicit map that has a cell of
\* its own: a label outside the axis, or one sharing a cell with another,
\* does not keep a later label from being drawn.
C29_UndrawableLabelIsSkipped ==
    (/\ pc = "returned"
     /\ \/ fn = "render_as_x" /\ args.num_cols >= 1 /\ args.left_margin >= 1
        \/ fn = "render_as_y" /\ args.num_rows >= 1
     /\ args.axis.labels_given)
    => \A v \in DOMAIN args.axis.labels :
          Drawable(v) => \A k \in DOMAIN LeftUndrawn : LeftUndrawn[k] # v

-----------------------------------------------------------------------------
(* Claims about histogram2d with ranges taken from the data *)

\* no ranges, a non-empty point list, drop_outside set, and bins given
\* only as counts or only as bin_size
InferredRanges(a) ==
    /\ a.ranges = Null \/ a.ranges = <<Null, Null>>
    /\ a.points # <<>>
    /\ a.drop_outside
    /\ \/ BinsAsCount(a) /\ a.bin_size.kind = "None"
       \/ a.bins.kind = "None" /\ a.bin_size.kind # "None"

\* C28: with the ranges taken from the data histogram2d returns a grid
\* that counts every point: the edges it makes start at or below the
\* smallest value and end above the largest one.
C28_InferredRangesKeepEveryPoint ==
    (fn = "histogram2d" /\ pc = "returned" /\ InferredRanges(args)) =>
        GridTotal(ret[1]) = Len(args.points)

-----------------------------------------------------------------------------
(* smoothing.py: the width of a kernel.  A float of this part is a record  *)
(* [m, e] that stands for m * 2^e with m >= 0: func_span only doubles,     *)
(* halves and adds floats of a few bits, which binary floats do exactly.   *)

Dy(m, e) == [m |-> m, e |-> e]

\* the same float with an odd m
DyNorm(d) ==
    IF d.m = 0 THEN Dy(0, 0)
    ELSE LET k == CHOOSE j \in 0 .. 30 : d.m % (2 ^ j) = 0 /\ (d.m \div (2 ^ j)) % 2 = 1
         IN  Dy(d.m \div (2 ^ k), d.e + k)

Log2Floor(m) == CHOOSE k \in 0 .. 30 : 2 ^ k <= m /\ m < 2 ^ (k + 1)

\* a < b
DyLess(a, b) ==
    IF a.m = 0 THEN b.m > 0
    ELSE IF b.m = 0 THEN FALSE
    ELSE LET mag_a == a.e + Log2Floor(a.m)
             mag_b == b.e + Log2Floor(b.m)
             low == IF a.e < b.e THEN a.e ELSE b.e
         IN  IF mag_a # mag_b THEN mag_a < mag_b
             ELSE a.m * 2 ^ (a.e - low) < b.m * 2 ^ (b.e - low)

\* (a + b) / 2 for a = 0 or a and b of like size
DyMid(a, b) ==
    IF a.m = 0 THEN DyNorm(Dy(b.m, b.e - 1))
    ELSE LET low == IF a.e < b.e THEN a.e ELSE b.e
         IN  DyNorm(Dy(a.m * 2 ^ (a.e - low) + b.m * 2 ^ (b.e - low), low - 1))

\* a - b for a >= b of like size, and a * b
DySub(a, b) ==
    IF b.m = 0 THEN DyNorm(a)
    ELSE LET low == IF a.e < b.e THEN a.e ELSE b.e
         IN  DyNorm(Dy(a.m * 2 ^ (a.e - low) - b.m * 2 ^ (b.e - low), low))

DyMul(a, b) == DyNorm(Dy(a.m * b.m, a.e + b.e))

\* triangle(width_x, width_y): the kernel `out` with its two attributes;
\* width / 2 and width / 4 are exact in binary floats
triangle(width_x, width_y) ==
    [kind |-> "triangle", width_x |-> width_x, width_y |-> width_y,
     attrs |-> {"widths", "half_height_widths"},
     widths |-> <<DyNorm(Dy(width_x.m, width_x.e - 1)),
                  DyNorm(Dy(width_y.m, width_y.e - 1))>>,
     half_height_widths |-> <<DyNorm(Dy(width_x.m, width_x.e - 2)),
                              DyNorm(Dy(width_y.m, width_y.e - 2))>>]

\* x_factor and y_factor of out: max(0.0, width / 2 - abs(delta)), for
\* dist = abs(delta)
TriangleFactor(width, dist) ==
    LET half == DyNorm(Dy(width.m, width.e - 1))
    IN  IF DyLess(dist, half) THEN DySub(half, dist) ELSE Dy(0, 0)

\* out(delta) of triangle(width_x, width_y) for abs(delta) = (dist_x, dist_y)
TriangleOut(kernel, dist_x, dist_y) ==
    DyMul(TriangleFactor(kernel.width_x, dist_x), TriangleFactor(kernel.width_y, dist_y))

\* a kernel without attributes, given by f_x and f_y, the functions that
\* func_width_half_height hands to func_span
PlainKernel(f_x, f_y) == [kind |-> "plain", attrs |-> {}, f_x |-> f_x, f_y |-> f_y]

\* name in dir(f)
HasAttr_none(f, name) == FALSE
HasAttr(f, name) == name \in f.attrs

\* f_x and f_y of func_width_half_height: the kernel along one axis.  A
\* triangle is at half its maximum at a quarter of its width
Section(kernel, axis) ==
    IF kernel.kind = "triangle"
    THEN [kind |-> "cross", at_c |-> 0,
          c |-> IF axis = "x" THEN DyNorm(Dy(kernel.width_x.m, kernel.width_x.e - 2))
                ELSE DyNorm(Dy(kernel.width_y.m, kernel.width_y.e - 2))]
    ELSE IF axis = "x" THEN kernel.f_x ELSE kernel.f_y

-----------------------------------------------------------------------------
(* smoothing.py: smooth_to_bins.  Points and centers are integers that     *)
(* count fractions 2^-GrainBits, which floats add and subtract exactly.    *)

GrainBits == 3
Grain == 2 ^ GrainBits

\* the float of n grains, and the grains of a float
DyOf(n) == DyNorm(Dy(n, -GrainBits))
GrainsOf(d) == d.m * 2 ^ (d.e + GrainBits)

\* a + b
DyAdd(a, b) ==
    IF a.m = 0 THEN DyNorm(b)
    ELSE IF b.m = 0 THEN DyNorm(a)
    ELSE LET low == IF a.e < b.e THEN a.e ELSE b.e
         IN  DyNorm(Dy(a.m * 2 ^ (a.e - low) + b.m * 2 ^ (b.e - low), low))

RECURSIVE DySum(_)
DySum(s) == IF s = <<>> THEN Dy(0, 0) ELSE DyAdd(s[1], DySum(Tail(s)))

\* kernel((x_f - bin_x, y_f - bin_y)) for a triangle
KernelAt(kernel, p, bin_x, bin_y) ==
    TriangleOut(kernel, DyOf(Abs(p[1] - bin_x)), DyOf(Abs(p[2] - bin_y)))

\* a bound of the slice seq[start : end] of a list of n entries: a
\* negative bound counts from the end, and bounds outside are clipped
SliceBound(bound, n) ==
    IF bound < 0 THEN (IF bound + n < 0 THEN 0 ELSE bound + n)
    ELSE IF bound > n THEN n ELSE bound

\* enumerate(seq[start : end], start): the pairs <<index given, position
\* in seq>>, both 0-based
Enumerated(start, end, n) ==
    {<<start + (pos - SliceBound(start, n)), pos>> :
        pos \in SliceBound(start, n) .. SliceBound(end, n) - 1}

\* kernel_width_di: round(kernel_width // delta) + 1
WidthDi(kernel_width, delta) == (GrainsOf(kernel_width) \div delta) + 1

\* the columns (dim = 1) or rows (dim = 2) that the loops visit for the
\* point p
Visited(p, kernel, centers, dim) ==
    LET delta == centers[2] - centers[1]
        ctr_i == RoundHalfEven(p[dim] - centers[1], delta)
        di == WidthDi(kernel.widths[dim], delta)
    IN  Enumerated(ctr_i - di, ctr_i + di + 1, Len(centers))

\* out[y_i][x_i] raises IndexError for an index below -len
smooth_to_bins_raises(points, kernel, x_centers, y_centers) ==
    \E k \in DOMAIN points :
        LET xs == Visited(points[k], kernel, x_centers, 1)
            ys == Visited(points[k], kernel, y_centers, 2)
        IN  /\ xs # {} /\ ys # {}
            /\ \/ \E h \in xs : h[1] < -Len(x_centers)
               \/ \E h \in ys : h[1] < -Len(y_centers)

\* what the point p adds to out[row][col] (0-based): out[y_i][x_i] with a
\* negative index is the entry len + index
Added(p, kernel, x_centers, y_centers, row, col) ==
    LET xs == {h \in Visited(p, kernel, x_centers, 1) : h[1] % Len(x_centers) = col}
        ys == {h \in Visited(p, kernel, y_centers, 2) : h[1] % Len(y_centers) = row}
    IN  IF xs = {} \/ ys = {} THEN Dy(0, 0)
        ELSE KernelAt(kernel, p, x_centers[(CHOOSE h \in xs : TRUE)[2] + 1],
                      y_centers[(CHOOSE h \in ys : TRUE)[2] + 1])

\* smooth_to_bins(points, kernel, x_centers, y_centers) for a kernel with
\* the attribute widths, when it returns
smooth_to_bins(points, kernel, x_centers, y_centers) ==
    [row \in 1 .. Len(y_centers) |->
        [col \in 1 .. Len(x_centers) |->
            DySum([k \in DOMAIN points |->
                     Added(points[k], kernel, x_centers, y_centers, row - 1, col - 1)])]]

\* kernel.py: the accumulation of kernel_edges over every cell, given the
\* centers
kernel_over_centers(points, kernel, x_centers, y_centers) ==
    [row \in 1 .. Len(y_centers) |->
        [col \in 1 .. Len(x_centers) |->
            DySum([k \in DOMAIN points |->
                     KernelAt(kernel, points[k], x_centers[col], y_centers[row])])]]

\* the budgets of func_span: range(100), range(100) and iter_count >= 10
MaxDoublings == 100
MaxBisections == 100
RefineCount == 10

\* the sign of f(x) - target for the function f handed to func_span, with
\* target = f(0) / 2.  f is flat (above the target everywhere), zero (0
\* everywhere, so equal to the target), or it crosses: above the target
\* below c, under it above c, and at_c gives the sign at c itself
FCmp(f, x) ==
    IF f.kind = "flat" THEN 1
    ELSE IF f.kind = "zero" THEN 0
    ELSE IF DyLess(x, f.c) THEN 1
    ELSE IF DyLess(f.c, x) THEN -1
    ELSE f.at_c

-----------------------------------------------------------------------------
(* SpecSmooth: one call of func_span, func_width_half_height or func_width, *)
(* one loop iteration of func_span per step                                *)

\* the functions handed to func_span cross their half maximum at 2^k or
\* 3 * 2^k with -MaxExp <= k <= MaxExp
MaxExp == 102

SpanFuncs ==
    {[kind |-> "flat", c |-> Dy(0, 0), at_c |-> 0], [kind |-> "zero", c |-> Dy(0, 0), at_c |-> 0]}
    \cup
    {[kind |-> "cross", c |-> Dy(m, k), at_c |-> s] :
        m \in {1, 3}, k \in -MaxExp .. MaxExp, s \in {-1, 0, 1}}

\* widths of triangles: 4, 3, 1, 1/2 and 3/8
TriangleWidths == {Dy(1, 2), Dy(3, 0), Dy(1, 0), Dy(1, -1), Dy(3, -3)}

\* kernels without attributes: along each axis they cross their half
\* maximum at 1 or at 3/4, or never fall to it
PlainSections ==
    {[kind |-> "cross", c |-> Dy(1, 0), at_c |-> 0],
     [kind |-> "cross", c |-> Dy(3, -2), at_c |-> -1],
     [kind |-> "flat", c |-> Dy(0, 0), at_c |-> 0]}

Kernels ==
    {triangle(wx, wy) : wx \in TriangleWidths, wy \in TriangleWidths}
    \cup {PlainKernel(f_x, f_y) : f_x \in PlainSections, f_y \in PlainSections}

\* smooth_to_bins gets at most MaxSmoothPoints points, on and around
\* grids of up to five columns and three rows
MaxSmoothPoints == 2

SmoothPoints ==
    {<<-3 * Grain, Grain>>, <<-Grain, 0>>, <<0, 0>>, <<Grain \div 2, Grain>>,
     <<Grain, Grain>>, <<2 * Grain, Grain>>, <<4 * Grain, Grain>>, <<5 * Grain, 2 * Grain>>}

SmoothXCenters ==
    {<<0, Grain, 2 * Grain>>, <<0, Grain, 2 * Grain, 3 * Grain, 4 * Grain>>,
     <<0, 2 * Grain, 4 * Grain>>}

SmoothYCenters == {<<0, Grain>>, <<0, Grain, 2 * Grain>>}

SmoothKernels ==
    {triangle(Dy(1, 2), Dy(1, 2)), triangle(Dy(1, 1), Dy(1, 1)), triangle(Dy(3, 0), Dy(1, 1))}

SmoothCalls ==
    {[name |-> "func_span", f |-> f] : f \in SpanFuncs}
    \cup
    {[name |-> "smooth_to_bins", points |-> ps, f |-> kernel,
      x_centers |-> xc, y_centers |-> yc] :
        ps \in SeqsUpTo(SmoothPoints, MaxSmoothPoints) \ {<<>>},
        kernel \in SmoothKernels, xc \in SmoothXCenters, yc \in SmoothYCenters}
    \cup
    {[name |-> name, f |-> kernel] :
        name \in {"func_width_half_height", "func_width"}, kernel \in Kernels}

SmoothInit ==
    /\ pc = "call"
    /\ \E c \in SmoothCalls : fn = c.name /\ args = c
    /\ ret = Null /\ raised = "" /\ span = Null
    /\ x_edges = Null /\ y_edges = Null /\ drop_outside = FALSE
    /\ out = Null /\ cur = Null /\ n_seen = 0 /\ n_inside = 0 /\ scenario = FALSE
    /\ pts = Null /\ grid_whole = Null /\ parts = Null /\ part_grids = Null
    /\ HistIdle

SpanFrame == UNCHANGED <<binVars, redVars, histVars, fn, args>>

\* the function that func_span is working on
SpanFunc == IF fn = "func_span" THEN args.f ELSE Section(args.f, span.axis)

\* the locals of func_span at its start; axis and first belong to
\* func_width_half_height: the axis being measured and func_span(f_x)
SpanStart(axis, first) ==
    [lower |-> Dy(0, 0), upper |-> Dy(1, 0), doublings |-> 0,
     bisections |-> 0, iter_count |-> 0, moved_at |-> -1,
     axis |-> axis, first |-> first]

CallSmoothToBins ==
    /\ pc = "call" /\ fn = "smooth_to_bins"
    /\ IF smooth_to_bins_raises(args.points, args.f, args.x_centers, args.y_centers)
       THEN /\ raised' = "IndexError"
            /\ pc' = "raised"
            /\ UNCHANGED ret
       ELSE /\ ret' = smooth_to_bins(args.points, args.f, args.x_centers, args.y_centers)
            /\ pc' = "returned"
            /\ UNCHANGED raised
    /\ FnFrame

\* func_width_half_height(f) returns the attribute of f
CallFuncWidthHalfHeight ==
    /\ pc = "call" /\ fn = "func_width_half_height"
    /\ HasAttr(args.f, "half_height_widths")
    /\ ret' = args.f.half_height_widths
    /\ pc' = "returned"
    /\ UNCHANGED raised
    /\ FnFrame

\* func_width(f) returns the attribute of f, or three times the one that
\* func_width_half_height returns
CallFuncWidth ==
    /\ pc = "call" /\ fn = "func_width"
    /\ HasAttr(args.f, "widths") \/ HasAttr(args.f, "half_height_widths")
    /\ ret' = IF HasAttr(args.f, "widths") THEN args.f.widths
              ELSE <<DyMul(Dy(3, 0), args.f.half_height_widths[1]),
                     DyMul(Dy(3, 0), args.f.half_height_widths[2])>>
    /\ pc' = "returned"
    /\ UNCHANGED raised
    /\ FnFrame

\* the loops have used up their range(100)
DoublingsSpent(k) == k = MaxDoublings
BisectionsSpent_never(n) == FALSE
BisectionsSpent(n) == n = MaxBisections

\* func_span is entered: lower, upper = 0, 1.  doublings and bisections
\* count the iterations of the two loops; moved_at is the bisection after
\* which lower was positive for the first time (0: it was positive before
\* the second loop, -1: not yet)
SpanEnter ==
    /\ pc = "call"
    /\ \/ fn = "func_span" /\ span' = SpanStart("", Dy(0, 0))
       \/ /\ \/ fn = "func_width_half_height"
             \/ fn = "func_width" /\ ~HasAttr(args.f, "widths")
          /\ ~HasAttr(args.f, "half_height_widths")
          /\ span' = SpanStart("x", Dy(0, 0))
    /\ pc' = "doubling"
    /\ UNCHANGED <<ret, raised>>
    /\ SpanFrame

\* an iteration of the first loop that doubles upper
SpanDouble ==
    /\ pc = "doubling"
    /\ ~DoublingsSpent(span.doublings)
    /\ FCmp(SpanFunc, span.upper) > 0
    /\ span' = [span EXCEPT !.lower = span.upper,
                            !.upper = Dy(span.upper.m, span.upper.e + 1),
                            !.doublings = @ + 1]
    /\ UNCHANGED <<pc, ret, raised>>
    /\ SpanFrame

\* the iteration of the first loop that breaks: f(upper) <= target
SpanBracketed ==
    /\ pc = "doubling"
    /\ ~DoublingsSpent(span.doublings)
    /\ FCmp(SpanFunc, span.upper) <= 0
    /\ span' = [span EXCEPT !.moved_at = IF span.lower.m > 0 THEN 0 ELSE -1]
    /\ pc' = "bisecting"
    /\ UNCHANGED <<ret, raised>>
    /\ SpanFrame

\* the else branch of the first loop
SpanDoubleRaises ==
    /\ pc = "doubling"
    /\ DoublingsSpent(span.doublings)
    /\ raised' = "ValueError"
    /\ pc' = "raised"
    /\ UNCHANGED <<ret, span>>
    /\ SpanFrame

\* the locals after one more iteration of the second loop
Bisected(f, st) ==
    LET test == DyMid(st.lower, st.upper)
        below == FCmp(f, test) < 0
        new_lower == IF below THEN st.lower ELSE test
    IN  [st EXCEPT !.lower = new_lower,
                   !.upper = IF below THEN test ELSE st.upper,
                   !.bisections = @ + 1,
                   !.iter_count = IF new_lower.m > 0 THEN @ + 1 ELSE @,
                   !.moved_at = IF @ = -1 /\ new_lower.m > 0
                                THEN st.bisections + 1 ELSE @]

\* an iteration of the second loop that does not break
SpanBisect ==
    /\ pc = "bisecting"
    /\ ~BisectionsSpent(span.bisections)
    /\ span' = Bisected(SpanFunc, span)
    /\ ~(span'.lower.m > 0 /\ span'.iter_count >= RefineCount)
    /\ UNCHANGED <<pc, ret, raised>>
    /\ SpanFrame

\* the iteration of the second loop that breaks: func_span returns
\* (lower + upper) / 2, to its caller or to func_width_half_height, which
\* goes on with f_y or returns both spans (func_width: three times each)
SpanReturn ==
    /\ pc = "bisecting"
    /\ ~BisectionsSpent(span.bisections)
    /\ LET st == Bisected(SpanFunc, span)
           mid == DyMid(st.lower, st.upper)
           times == IF fn = "func_width" THEN Dy(3, 0) ELSE Dy(1, 0)
       IN  /\ st.lower.m > 0 /\ st.iter_count >= RefineCount
           /\ IF fn = "func_span"
              THEN span' = st /\ ret' = <<mid>> /\ pc' = "returned"
              ELSE IF span.axis = "x"
              THEN span' = SpanStart("y", mid) /\ pc' = "doubling" /\ UNCHANGED ret
              ELSE /\ span' = st
                   /\ ret' = <<DyMul(times, span.first), DyMul(times, mid)>>
                   /\ pc' = "returned"
    /\ UNCHANGED raised
    /\ SpanFrame

\* the else branch of the second loop
SpanBisectRaises ==
    /\ pc = "bisecting"
    /\ BisectionsSpent(span.bisections)
    /\ raised' = "ValueError"
    /\ pc' = "raised"
    /\ UNCHANGED <<ret, span>>
    /\ SpanFrame

SmoothNext ==
    \/ CallSmoothToBins
    \/ CallFuncWidthHalfHeight
    \/ CallFuncWidth
    \/ SpanEnter
    \/ SpanDouble
    \/ SpanBracketed
    \/ SpanDoubleRaises
    \/ SpanBisect
    \/ SpanReturn
    \/ SpanBisectRaises

SpecSmooth == SmoothInit /\ [][SmoothNext]_vars

-----------------------------------------------------------------------------
(* Claims about func_span *)

\* f stays above its half maximum at every upper bound that the first
\* loop tests: 1, 2, 4, ..
NeverBelowTarget(f) == \A k \in 0 .. MaxDoublings - 1 : FCmp(f, Dy(1, k)) > 0

\* f is under its half maximum at 1 and at every 2^-k that the second
\* loop can test early enough to leave RefineCount - 1 iterations
TooNarrow(f) ==
    /\ FCmp(f, Dy(1, 0)) <= 0
    /\ \A k \in 1 .. MaxBisections - RefineCount + 1 : FCmp(f, Dy(1, -k)) < 0

\* C22: func_span returns only the midpoint of a bracket with a positive
\* lower end where f is at or above its half maximum and an upper end
\* where f is at or under it, found within both budgets; when a budget
\* runs out it raises ValueError.
C22_NoGuessedSpan ==
    fn = "func_span" =>
        /\ pc = "returned" =>
              /\ ~NeverBelowTarget(args.f) /\ ~TooNarrow(args.f)
              /\ span.doublings < MaxDoublings
              /\ span.bisections <= MaxBisections
              /\ span.iter_count = RefineCount
              /\ span.lower.m > 0
              /\ FCmp(args.f, span.lower) >= 0
              /\ FCmp(args.f, span.upper) <= 0
              /\ DyLess(span.lower, ret[1])
              /\ DyLess(ret[1], span.upper)
        /\ pc = "raised" =>
              /\ raised = "ValueError"
              /\ NeverBelowTarget(args.f) \/ TooNarrow(args.f)

\* the second loop ran out of iterations
C22_Witness ==
    /\ fn = "func_span" /\ pc = "raised"
    /\ args.f.kind = "cross" /\ TooNarrow(args.f)

\* the kernel of the call is a triangle
TriangleCall == fn \in {"func_width_half_height", "func_width"} /\ args.f.kind = "triangle"

\* distances from the centre at and beyond x: x, 1.5 x, 2 x and x + 1
Beyond(x) == {x, DyMul(Dy(3, -1), x), DyMul(Dy(2, 0), x), DyMid(DyMul(Dy(2, 0), x), Dy(2, 0))}

\* C21: for a triangle func_width returns (width_x / 2, width_y / 2), at
\* and beyond which the kernel is 0, and func_width_half_height returns
\* (width_x / 4, width_y / 4), where each factor is half its value at 0;
\* both return without entering func_span, and triangle(4, 4) has the
\* half-height widths (1, 1).
C21_TriangleWidthsAreAnalytic ==
    (TriangleCall /\ pc # "call") =>
        /\ pc = "returned" /\ span = Null
        /\ fn = "func_width" =>
              /\ DyMul(Dy(2, 0), ret[1]) = DyNorm(args.f.width_x)
              /\ DyMul(Dy(2, 0), ret[2]) = DyNorm(args.f.width_y)
              /\ \A dx \in Beyond(ret[1]) : TriangleOut(args.f, dx, Dy(0, 0)) = Dy(0, 0)
              /\ \A dy \in Beyond(ret[2]) : TriangleOut(args.f, Dy(0, 0), dy) = Dy(0, 0)
        /\ fn = "func_width_half_height" =>
              /\ DyMul(Dy(4, 0), ret[1]) = DyNorm(args.f.width_x)
              /\ DyMul(Dy(4, 0), ret[2]) = DyNorm(args.f.width_y)
              /\ DyMul(Dy(2, 0), TriangleFactor(args.f.width_x, ret[1]))
                    = TriangleFactor(args.f.width_x, Dy(0, 0))
              /\ DyMul(Dy(2, 0), TriangleFactor(args.f.width_y, ret[2]))
                    = TriangleFactor(args.f.width_y, Dy(0, 0))
              /\ args.f = triangle(Dy(1, 2), Dy(1, 2)) => ret = <<Dy(1, 0), Dy(1, 0)>>

\* func_width_half_height(triangle(4, 4)) has returned (1.0, 1.0)
C21_Witness ==
    /\ fn = "func_width_half_height" /\ pc = "returned"
    /\ args.f = triangle(Dy(1, 2), Dy(1, 2))
    /\ ret = <<Dy(1, 0), Dy(1, 0)>>

\* C23: smooth_to_bins returns the grid of the accumulation over every
\* cell, wherever the points lie: inside the grid, near its first or last
\* row or column, or outside it.
C23_WindowEqualsFullGrid ==
    (fn = "smooth_to_bins" /\ pc # "call") =>
        /\ pc = "returned"
        /\ ret = kernel_over_centers(args.points, args.f, args.x_centers, args.y_centers)

\* C27: once the lower bound of func_span is positive, exactly RefineCount
\* more bisections are made before the midpoint is returned, whether the
\* bound became positive in the first loop or in the second.
C27_TenBisectionsAfterLowerMoved ==
    (fn = "func_span" /\ pc = "returned") =>
        span.bisections = span.moved_at + RefineCount

=============================================================================
